---- MODULE Spec2Model ----
(***************************************************************************)
(* Scene graph core of the engine: the generational Pool that stores the   *)
(* nodes, Scene's add/remove/link/unlink operations and the transform      *)
(* propagation pass Scene::update; and the engine around it: the texture   *)
(* cache of Engine::request_texture, Renderer::upload_resources and the    *)
(* draw calls of Renderer::render.                                         *)
(*                                                                         *)
(* Indices are 1-based here (slot i of the model is slot i-1 of the Vec).  *)
(* An Option<T> is a sequence of length 0 (None) or 1 (Some).              *)
(* Matrix4 is a 16-tuple in column-major order, as nalgebra stores it, so  *)
(* m[13], m[14], m[15] are the elements 12, 13, 14 read by                 *)
(* Node::get_global_position.  Rotations stay at the identity and scales   *)
(* at (1,1,1): the nodes are translation-only with integer positions.      *)
(***************************************************************************)
EXTENDS Integers, Sequences, FiniteSets, TLC

VARIABLES
    nodes,          \* Scene.nodes : Pool<Node>  ([records, free_head])
    root,           \* Scene.root  : Handle<Node>
    stack,          \* Scene.stack : Vec<Handle<Node>>
    pc,             \* "idle", or "update" inside the loop of Scene::update
    aspect_ratio,   \* the argument of the running Scene::update call
    issued,         \* issued[k] = handle returned by the k-th add_node call
    freed,          \* the handles remove_node has freed, oldest first
    resources,      \* Engine.resources : Vec<Rc<RefCell<Resource>>>
    loads,          \* loads[p] = number of successful Texture::load(p)
    granted,        \* granted[p] = the instances request_texture(p) returned
    requests,       \* number of request_texture calls made
    gl_textures,    \* number of texture names gl.create_texture has returned
    surface_data,   \* the SurfaceSharedData instances, by creation order
    draws,          \* the draw calls of the last Renderer::render, in order
    phase           \* "idle", or "uploaded" inside Engine::render

scene_vars == <<nodes, root, stack, pc, aspect_ratio, issued, freed>>

engine_vars == <<resources, loads, granted, requests, gl_textures,
                 surface_data, draws, phase>>

vars == <<nodes, root, stack, pc, aspect_ratio, issued, freed, resources,
          loads, granted, requests, gl_textures, surface_data, draws, phase>>

----------------------------------------------------------------------------
(* Bounds of the model *)

\* number of add_node calls in the scene-graph specification
MaxNodes == 2
\* number of add_node calls in the transform specification
MaxXfNodes == 2
\* number of add_node calls in the deep-chain specification
MaxChainNodes == 3
\* number of spawn calls in the pool specification
MaxPoolSpawns == 4
\* longest traversal stack followed (a cyclic graph grows it without end)
MaxStack == 4
\* number of request_texture calls in the engine specification
MaxRequests == 2
\* number of add_node calls in the engine specification
MaxRenderNodes == 3

\* nodes added to the scene whose graph is rendered
MaxGraphNodes == 3

\* nodes of the scene the frame loop runs on
MaxFrameNodes == 2

\* nodes added to the scene from which nodes are removed
MaxOrphanNodes == 3

\* nodes of the graph whose update is followed step by step
MaxOrderNodes == 3
MaxScratchNodes == 2

----------------------------------------------------------------------------
(* Option<T> *)

None == <<>>
Some(x) == <<x>>
IsSome(o) == Len(o) = 1
Unwrap(o) == o[1]

----------------------------------------------------------------------------
(* Handle<T> and Pool<T> *)

\* the reserved invalid index of the "none" sentinel
InvalidIndex == 0

Handle(i, g) == [index |-> i, generation |-> g]

HandleNone == Handle(InvalidIndex, 0)

PoolNew == [records |-> <<>>, free_head |-> InvalidIndex]

capacity(pool) == Len(pool.records)

IsOccupied(slot) == IsSome(slot.payload)

\* at(index): direct slot access by raw index
at(pool, i) ==
    IF i \in 1..capacity(pool) THEN pool.records[i].payload ELSE None

\* a validity test that does not compare generations
IsValidHandle_no_generation(pool, h) ==
    /\ h.index \in 1..capacity(pool)
    /\ IsOccupied(pool.records[h.index])

\* a handle resolves iff its slot is Occupied and the generations match
IsValidHandle(pool, h) ==
    /\ h.index \in 1..capacity(pool)
    /\ IsOccupied(pool.records[h.index])
    /\ pool.records[h.index].generation = h.generation

borrow(pool, h) ==
    IF IsValidHandle(pool, h) THEN pool.records[h.index].payload ELSE None

\* a spawn that never reuses a free slot
spawn_append(pool, value) ==
    [pool |-> [records |-> Append(pool.records,
                                  [payload |-> Some(value),
                                   generation |-> 0,
                                   next_free_index |-> InvalidIndex]),
               free_head |-> pool.free_head],
     handle |-> Handle(capacity(pool) + 1, 0)]

\* a spawn that reuses the head of the free list and leaves it the head
spawn_keep_free_head(pool, value) ==
    IF pool.free_head # InvalidIndex
    THEN [pool |-> [records |-> [pool.records EXCEPT ![pool.free_head] =
                                   [payload |-> Some(value),
                                    generation |-> @.generation + 1,
                                    next_free_index |-> InvalidIndex]],
                    free_head |-> pool.free_head],
          handle |-> Handle(pool.free_head,
                            pool.records[pool.free_head].generation + 1)]
    ELSE spawn_append(pool, value)

\* a spawn that starts a reused slot at generation 0 again
spawn_reset_generation(pool, value) ==
    IF pool.free_head # InvalidIndex
    THEN [pool |-> [records |-> [pool.records EXCEPT ![pool.free_head] =
                                   [payload |-> Some(value),
                                    generation |-> 0,
                                    next_free_index |-> InvalidIndex]],
                    free_head |-> pool.records[pool.free_head]
                                      .next_free_index],
          handle |-> Handle(pool.free_head, 0)]
    ELSE spawn_append(pool, value)

\* spawn(value): the pool after the call and the handle it returns; a free
\* slot is reused with its generation incremented, else a slot is appended
spawn(pool, value) ==
    IF pool.free_head # InvalidIndex
    THEN LET i == pool.free_head
             slot == pool.records[i]
         IN  [pool |-> [records |-> [pool.records EXCEPT ![i] =
                                       [payload |-> Some(value),
                                        generation |-> slot.generation + 1,
                                        next_free_index |-> InvalidIndex]],
                        free_head |-> slot.next_free_index],
              handle |-> Handle(i, slot.generation + 1)]
    ELSE [pool |-> [records |-> Append(pool.records,
                                       [payload |-> Some(value),
                                        generation |-> 0,
                                        next_free_index |-> InvalidIndex]),
                    free_head |-> pool.free_head],
          handle |-> Handle(capacity(pool) + 1, 0)]

\* a free that drops the slot when it is the last one
free_and_shrink(pool, h) ==
    IF IsValidHandle(pool, h)
    THEN IF h.index = capacity(pool)
         THEN [records |-> SubSeq(pool.records, 1, capacity(pool) - 1),
               free_head |-> pool.free_head]
         ELSE [records |-> [pool.records EXCEPT ![h.index] =
                               [payload |-> None,
                                generation |-> @.generation + 1,
                                next_free_index |-> pool.free_head]],
               free_head |-> h.index]
    ELSE pool

\* the pool after free(handle)
free(pool, h) ==
    IF IsValidHandle(pool, h)
    THEN [records |-> [pool.records EXCEPT ![h.index] =
                          [payload |-> None,
                           generation |-> @.generation + 1,
                           next_free_index |-> pool.free_head]],
          free_head |-> h.index]
    ELSE pool

\* borrow_mut(handle) followed by an assignment through the reference
Store(pool, h, value) ==
    [pool EXCEPT !.records[h.index].payload = Some(value)]

----------------------------------------------------------------------------
(* Matrix4 and Vector3 *)

Zeros == <<0, 0, 0>>
Ones == <<1, 1, 1>>

Identity == <<1, 0, 0, 0,  0, 1, 0, 0,  0, 0, 1, 0,  0, 0, 0, 1>>

\* the product of two 4x4 matrices in column-major order: element (r, c) is
\* row r of a times column c of b
Product(a, b) ==
    << a[1] * b[1] + a[5] * b[2] + a[9] * b[3] + a[13] * b[4],
       a[2] * b[1] + a[6] * b[2] + a[10] * b[3] + a[14] * b[4],
       a[3] * b[1] + a[7] * b[2] + a[11] * b[3] + a[15] * b[4],
       a[4] * b[1] + a[8] * b[2] + a[12] * b[3] + a[16] * b[4],
       a[1] * b[5] + a[5] * b[6] + a[9] * b[7] + a[13] * b[8],
       a[2] * b[5] + a[6] * b[6] + a[10] * b[7] + a[14] * b[8],
       a[3] * b[5] + a[7] * b[6] + a[11] * b[7] + a[15] * b[8],
       a[4] * b[5] + a[8] * b[6] + a[12] * b[7] + a[16] * b[8],
       a[1] * b[9] + a[5] * b[10] + a[9] * b[11] + a[13] * b[12],
       a[2] * b[9] + a[6] * b[10] + a[10] * b[11] + a[14] * b[12],
       a[3] * b[9] + a[7] * b[10] + a[11] * b[11] + a[15] * b[12],
       a[4] * b[9] + a[8] * b[10] + a[12] * b[11] + a[16] * b[12],
       a[1] * b[13] + a[5] * b[14] + a[9] * b[15] + a[13] * b[16],
       a[2] * b[13] + a[6] * b[14] + a[10] * b[15] + a[14] * b[16],
       a[3] * b[13] + a[7] * b[14] + a[11] * b[15] + a[15] * b[16],
       a[4] * b[13] + a[8] * b[14] + a[12] * b[15] + a[16] * b[16] >>

\* Matrix4 * Matrix4; a factor that is the identity leaves the other one, so
\* the product is only multiplied out when neither is
Mul(a, b) ==
    IF b = Identity THEN a
    ELSE IF a = Identity THEN b
    ELSE Product(a, b)

new_translation(v) ==
    <<1, 0, 0, 0,  0, 1, 0, 0,  0, 0, 1, 0,  v[1], v[2], v[3], 1>>

new_nonuniform_scaling(s) ==
    <<s[1], 0, 0, 0,  0, s[2], 0, 0,  0, 0, s[3], 0,  0, 0, 0, 1>>

VecAdd(a, b) == <<a[1] + b[1], a[2] + b[2], a[3] + b[3]>>

----------------------------------------------------------------------------
(* Node *)

\* Matrix4::look_at_rh and Matrix4::new_perspective are kept symbolic: the
\* matrix is named by the arguments it is built from
look_at_rh(eye, target, up) == [eye |-> eye, target |-> target, up |-> up]

new_perspective(aspect, fov, z_near, z_far) ==
    [aspect |-> aspect, fov |-> fov, z_near |-> z_near, z_far |-> z_far]

\* Camera::default: the identity view matrix is the look-at from the origin
\* down the negative z axis
CameraDefault ==
    [tag |-> "Camera", fov |-> 45, z_near |-> 1, z_far |-> 1000,
     view_matrix |-> look_at_rh(<<0, 0, 0>>, <<0, 0, -1>>, <<0, 1, 0>>),
     projection_matrix |-> new_perspective(1, 45, 1, 1000)]

KindBase == [tag |-> "Base"]

\* Light::default
LightDefault == [tag |-> "Light", radius |-> 10, color |-> Ones]

calculate_matrices(camera, pos, look, up, aspect) ==
    [camera EXCEPT
        !.view_matrix = look_at_rh(pos, VecAdd(pos, look), up),
        !.projection_matrix =
            new_perspective(aspect, camera.fov, camera.z_near, camera.z_far)]

NodeNew(name, kind) ==
    [name |-> name,
     kind |-> kind,
     local_scale |-> Ones,
     local_position |-> Zeros,
     parent |-> HandleNone,
     children |-> <<>>,
     local_transform |-> Identity,
     global_transform |-> Identity]

set_local_position(node, pos) == [node EXCEPT !.local_position = pos]

\* T * Ro * Rp * Rpre * R * Rpost^-1 * Rp^-1 * So * Sp * S * Sp^-1; the
\* rotations, pivots and offsets have no setter and the rotation is kept at
\* the identity, so each of those factors is the identity matrix
LocalTransformOf(node) ==
    LET translation == new_translation(node.local_position)
        scale == new_nonuniform_scaling(node.local_scale)
        rotation_offset == Identity
        rotation_pivot == Identity
        pre_rotation == Identity
        rotation == Identity
        post_rotation == Identity
        rotation_pivot_inv == Identity
        scale_offset == Identity
        scale_pivot == Identity
        scale_pivot_inv == Identity
    IN  Mul(Mul(Mul(Mul(Mul(Mul(Mul(Mul(Mul(Mul(translation,
            rotation_offset), rotation_pivot), pre_rotation), rotation),
            post_rotation), rotation_pivot_inv), scale_offset), scale_pivot),
            scale), scale_pivot_inv)

calculate_local_transform(node) ==
    [node EXCEPT !.local_transform = LocalTransformOf(node)]

get_global_position(node) ==
    <<node.global_transform[13], node.global_transform[14],
      node.global_transform[15]>>

get_look_vector(node) ==
    <<node.global_transform[9], node.global_transform[10],
      node.global_transform[11]>>

get_up_vector(node) ==
    <<node.global_transform[5], node.global_transform[6],
      node.global_transform[7]>>

----------------------------------------------------------------------------
(* Scene *)

\* position of the first element equal to h, 0 when there is none
RECURSIVE PositionFrom(_, _, _)
PositionFrom(s, h, i) ==
    IF i > Len(s) THEN 0
    ELSE IF s[i] = h THEN i
    ELSE PositionFrom(s, h, i + 1)

position(s, h) == PositionFrom(s, h, 1)

RemoveAt(s, i) == SubSeq(s, 1, i - 1) \o SubSeq(s, i + 1, Len(s))

\* an unlink_node that clears the parent and leaves the parent's children
unlink_node_keep_entry(pool, node_handle) ==
    IF IsSome(borrow(pool, node_handle))
    THEN Store(pool, node_handle,
               [Unwrap(borrow(pool, node_handle)) EXCEPT
                   !.parent = HandleNone])
    ELSE pool

unlink_node(pool, node_handle) ==
    LET found == borrow(pool, node_handle)
        parent_handle == IF IsSome(found) THEN Unwrap(found).parent
                         ELSE HandleNone
        p1 == IF IsSome(found)
              THEN Store(pool, node_handle,
                         [Unwrap(found) EXCEPT !.parent = HandleNone])
              ELSE pool
        parent == borrow(p1, parent_handle)
    IN  IF IsSome(parent)
        THEN LET i == position(Unwrap(parent).children, node_handle)
             IN  IF i # 0
                 THEN Store(p1, parent_handle,
                            [Unwrap(parent) EXCEPT
                                !.children = RemoveAt(@, i)])
                 ELSE p1
        ELSE p1

\* a link_nodes that does not unlink the child from its current parent
link_nodes_no_unlink(pool, child_handle, parent_handle) ==
    LET child == borrow(pool, child_handle)
    IN  IF IsSome(child)
        THEN LET p2 == Store(pool, child_handle,
                             [Unwrap(child) EXCEPT !.parent = parent_handle])
                 parent == borrow(p2, parent_handle)
             IN  IF IsSome(parent)
                 THEN Store(p2, parent_handle,
                            [Unwrap(parent) EXCEPT
                                !.children = Append(@, child_handle)])
                 ELSE p2
        ELSE pool

link_nodes(pool, child_handle, parent_handle) ==
    LET p1 == unlink_node(pool, child_handle)
        child == borrow(p1, child_handle)
    IN  IF IsSome(child)
        THEN LET p2 == Store(p1, child_handle,
                             [Unwrap(child) EXCEPT !.parent = parent_handle])
                 parent == borrow(p2, parent_handle)
             IN  IF IsSome(parent)
                 THEN Store(p2, parent_handle,
                            [Unwrap(parent) EXCEPT
                                !.children = Append(@, child_handle)])
                 ELSE p2
        ELSE p1

\* an add_node that spawns the node and does not link it
add_node_no_link(pool, node) ==
    [pool |-> spawn(pool, node).pool, handle |-> spawn(pool, node).handle]

\* the pool after add_node(node) and the handle it returns
add_node(pool, node) ==
    [pool |-> link_nodes(spawn(pool, node).pool, spawn(pool, node).handle,
                         root),
     handle |-> spawn(pool, node).handle]

\* a remove_node that detaches the node from its parent before freeing it
remove_node_unlinking(pool, handle) == free(unlink_node(pool, handle), handle)

\* a remove_node that frees whatever occupies the handle's slot
remove_node_by_index(pool, handle) ==
    IF handle.index \in 1..capacity(pool)
    THEN free(pool, Handle(handle.index,
                           pool.records[handle.index].generation))
    ELSE pool

remove_node(pool, handle) == free(pool, handle)

\* a borrow_node that reads the slot by its raw index
borrow_node_by_index(pool, handle) == at(pool, handle.index)

borrow_node(pool, handle) == borrow(pool, handle)

\* lines 105-107: a Camera recomputes its matrices from the global transform
UpdateCamera(node, aspect) ==
    IF node.kind.tag = "Camera"
    THEN [node EXCEPT !.kind =
            calculate_matrices(@, get_global_position(node),
                               get_look_vector(node), get_up_vector(node),
                               aspect)]
    ELSE node

\* lines 91-95: the local transform of the parent, the identity without one
ParentLocalTransform(pool, parent_handle) ==
    IF IsSome(borrow(pool, parent_handle))
    THEN Unwrap(borrow(pool, parent_handle)).local_transform
    ELSE Identity

\* an update that forgets the parent: global_transform = local_transform
UpdateGlobal_local_only(pool, handle, node, parent_local_transform, aspect) ==
    Store(pool, handle,
          UpdateCamera([node EXCEPT !.global_transform = node.local_transform],
                       aspect))

\* lines 97-107: global_transform = local_transform * parent_local_transform
UpdateGlobal(pool, handle, node, parent_local_transform, aspect) ==
    Store(pool, handle,
          UpdateCamera([node EXCEPT !.global_transform =
                           Mul(node.local_transform, parent_local_transform)],
                       aspect))

\* lines 85-89, then the rest on the pool that holds the new local transform
UpdateLocal(pool, handle, node, aspect) ==
    UpdateGlobal(pool, handle, node,
                 ParentLocalTransform(pool, node.parent), aspect)

\* an iteration that keeps the local transform cached by the last update
UpdateNode_cached_local(pool, handle, aspect) ==
    IF IsSome(borrow(pool, handle))
    THEN UpdateLocal(pool, handle, Unwrap(borrow(pool, handle)), aspect)
    ELSE pool

\* one iteration of the loop of Scene::update on the popped handle, up to
\* the push of the children; a handle that does not resolve changes nothing
UpdateNode(pool, handle, aspect) ==
    IF IsSome(borrow(pool, handle))
    THEN UpdateLocal(
            Store(pool, handle,
                  calculate_local_transform(Unwrap(borrow(pool, handle)))),
            handle,
            calculate_local_transform(Unwrap(borrow(pool, handle))),
            aspect)
    ELSE pool

\* the children the iteration pushes, in the order of the children sequence
PushedChildren(pool, handle) ==
    IF IsSome(borrow(pool, handle))
    THEN Unwrap(borrow(pool, handle)).children
    ELSE <<>>

\* the loop of Scene::update run for at most `fuel` iterations
RECURSIVE UpdateLoop(_, _, _, _)
UpdateLoop(pool, stk, aspect, fuel) ==
    IF stk = <<>> \/ fuel = 0
    THEN [nodes |-> pool, stack |-> stk]
    ELSE LET handle == stk[Len(stk)]
             popped == SubSeq(stk, 1, Len(stk) - 1)
         IN  UpdateLoop(UpdateNode(pool, handle, aspect),
                        popped \o PushedChildren(pool, handle),
                        aspect, fuel - 1)

RECURSIVE ChildEntries(_, _)
ChildEntries(pool, i) ==
    IF i = 0 THEN 0
    ELSE ChildEntries(pool, i - 1)
         + (IF IsOccupied(pool.records[i])
            THEN Len(Unwrap(pool.records[i].payload).children) ELSE 0)

\* a traversal that pops each pushed entry once ends within this many
\* iterations; one that does not end within them never ends
TraversalBound(pool) == 1 + ChildEntries(pool, capacity(pool))

\* Scene::update run to completion ([nodes, stack]; stack is empty iff the
\* loop ends)
update(pool, aspect) ==
    UpdateLoop(pool, <<root>>, aspect, TraversalBound(pool))

----------------------------------------------------------------------------
(* Engine: the full scan of a pool by raw index *)

\* for i in 0..capacity() { if let Some(x) = pool.at(i) { push(x) } }
RECURSIVE ScanFrom(_, _)
ScanFrom(pool, i) ==
    IF i > capacity(pool) THEN <<>>
    ELSE (IF IsSome(at(pool, i)) THEN <<Unwrap(at(pool, i))>> ELSE <<>>)
         \o ScanFrom(pool, i + 1)

\* the objects Engine::update and Engine::render visit, in order
alive(pool) == ScanFrom(pool, 1)

----------------------------------------------------------------------------
(* Resources: textures and Engine::request_texture.  An Rc<RefCell<..>> is   *)
(* named by the number of its allocation (field rc): two clones of one Rc    *)
(* have the same rc, two Rc::new calls never do.                             *)

\* the paths Level::new requests
Paths == {"floor.png", "box.png"}

\* Texture::load: Ok(texture) with need_upload set and no GPU texture, or
\* the error of image::open (ok = FALSE)
TextureLoad(path, ok) ==
    IF ok
    THEN Some([tag |-> "Texture", need_upload |-> TRUE, gpu_tex |-> None,
               uploads |-> 0])
    ELSE None

\* Rc::new(RefCell::new(Resource::new(path, kind)))
ResourceNew(rc, path, kind) == [rc |-> rc, path |-> path, kind |-> kind]

\* the first resource with this path, 0 when there is none
RECURSIVE FindResourceFrom(_, _, _)
FindResourceFrom(list, path, i) ==
    IF i > Len(list) THEN 0
    ELSE IF list[i].path = path THEN i
    ELSE FindResourceFrom(list, path, i + 1)

\* a request_texture that never looks in the list
request_texture_no_cache(list, path, ok) ==
    IF IsSome(TextureLoad(path, ok))
    THEN [resources |-> Append(list, ResourceNew(Len(list) + 1, path,
                                   Unwrap(TextureLoad(path, ok)))),
          result |-> Some(Len(list) + 1),
          load |-> Some(ok)]
    ELSE [resources |-> list, result |-> None, load |-> Some(ok)]

\* Engine::request_texture(path): the list after the call, the instance
\* returned (its rc) and the outcome of Texture::load when it was called
request_texture(list, path, ok) ==
    IF FindResourceFrom(list, path, 1) # 0
    THEN [resources |-> list,
          result |-> IF list[FindResourceFrom(list, path, 1)].kind.tag
                          = "Texture"
                     THEN Some(list[FindResourceFrom(list, path, 1)].rc)
                     ELSE None,
          load |-> None]
    ELSE IF IsSome(TextureLoad(path, ok))
    THEN [resources |-> Append(list, ResourceNew(Len(list) + 1, path,
                                   Unwrap(TextureLoad(path, ok)))),
          result |-> Some(Len(list) + 1),
          load |-> Some(ok)]
    ELSE [resources |-> list, result |-> None, load |-> Some(ok)]

----------------------------------------------------------------------------
(* Renderer: texture upload, surfaces and the render pass.  A GL texture     *)
(* name is the number of the gl.create_texture call that returned it.  A     *)
(* SurfaceSharedData is named by its position in surface_data; its field     *)
(* uploads counts the calls of SurfaceSharedData::upload on it, and the      *)
(* field uploads of a texture counts the gl.tex_image_2d calls made for it.  *)

\* gl.create_texture().ok(): a new name, or None when GL reports an error
create_texture(gl, ok) == IF ok THEN Some(gl + 1) ELSE None

\* an upload that leaves the need_upload flag set
UploadTexture_keep_flag(texture, gl, ok) ==
    IF texture.need_upload
    THEN [texture EXCEPT
             !.gpu_tex = IF @ = None THEN create_texture(gl, ok) ELSE @,
             !.uploads = @ + 1]
    ELSE texture

\* an upload that does not look at the need_upload flag
UploadTexture_every_frame(texture, gl, ok) ==
    [texture EXCEPT
        !.gpu_tex = IF @ = None THEN create_texture(gl, ok) ELSE @,
        !.uploads = @ + 1,
        !.need_upload = FALSE]

\* the body of the loop of upload_resources on one texture
UploadTexture(texture, gl, ok) ==
    IF texture.need_upload
    THEN [texture EXCEPT
             !.gpu_tex = IF @ = None THEN create_texture(gl, ok) ELSE @,
             !.uploads = @ + 1,
             !.need_upload = FALSE]
    ELSE texture

\* the number of names GL has returned after the loop body ran on texture
NamesAfter(texture, gl, ok) ==
    IF texture.need_upload /\ texture.gpu_tex = None /\ ok
    THEN gl + 1 ELSE gl

\* the loop of upload_resources from resource i on; fail holds the
\* resources for which gl.create_texture reports an error
RECURSIVE UploadFrom(_, _, _, _)
UploadFrom(list, i, gl, fail) ==
    IF i > Len(list) THEN [resources |-> list, gl_textures |-> gl]
    ELSE IF list[i].kind.tag = "Texture"
    THEN UploadFrom(
            [list EXCEPT ![i].kind =
                UploadTexture(list[i].kind, gl, i \notin fail)],
            i + 1, NamesAfter(list[i].kind, gl, i \notin fail), fail)
    ELSE UploadFrom(list, i + 1, gl, fail)

\* Renderer::upload_resources
upload_resources(list, gl, fail) == UploadFrom(list, 1, gl, fail)

\* SurfaceSharedData::new
SurfaceSharedDataNew == [need_upload |-> TRUE, uploads |-> 0]

\* SurfaceSharedData::upload
upload(data) == [data EXCEPT !.need_upload = FALSE, !.uploads = @ + 1]

\* Surface::new(&data)
SurfaceNew(d) == [data |-> d, texture |-> None]

\* Surface::set_texture
set_texture(surface, rc, list) ==
    [surface EXCEPT !.texture =
        IF list[rc].kind.tag = "Texture" THEN Some(rc) ELSE None]

\* Mesh::default
MeshDefault == [tag |-> "Mesh", surfaces |-> <<>>]

\* Mesh::make_cube: one surface on the new shared data d
make_cube(mesh, d) == [mesh EXCEPT !.surfaces = <<SurfaceNew(d)>>]

\* Mesh::apply_texture
apply_texture(mesh, rc, list) ==
    [mesh EXCEPT !.surfaces =
        [k \in DOMAIN mesh.surfaces |->
            set_texture(mesh.surfaces[k], rc, list)]]

\* the texture Surface::draw binds: the GL name of the surface's texture,
\* None for a surface without texture
BoundTexture(surface, list) ==
    IF IsSome(surface.texture)
    THEN list[Unwrap(surface.texture)].kind.gpu_tex
    ELSE None

\* a Surface::draw that uploads the geometry every time
DrawData_always_upload(surface, sd) ==
    [sd EXCEPT ![surface.data] = upload(@)]

\* the geometry after Surface::draw: uploaded when need_upload was set
DrawData(surface, sd) ==
    IF sd[surface.data].need_upload
    THEN [sd EXCEPT ![surface.data] = upload(@)]
    ELSE sd

\* the draw call Surface::draw issues
DrawCall(camera, mesh, surface, list) ==
    [camera |-> camera, mesh |-> mesh, data |-> surface.data,
     texture |-> surface.texture, bound |-> BoundTexture(surface, list)]

\* a classification that looks at the slot of the handle and not at its
\* generation
Classify_by_index(pool, handle, buckets) ==
    IF ~(handle.index \in 1..capacity(pool)
            /\ IsOccupied(pool.records[handle.index]))
    THEN buckets
    ELSE IF Unwrap(at(pool, handle.index)).kind.tag = "Mesh"
    THEN [buckets EXCEPT !.meshes = Append(@, handle)]
    ELSE IF Unwrap(at(pool, handle.index)).kind.tag = "Light"
    THEN [buckets EXCEPT !.lights = Append(@, handle)]
    ELSE IF Unwrap(at(pool, handle.index)).kind.tag = "Camera"
    THEN [buckets EXCEPT !.cameras = Append(@, handle)]
    ELSE buckets

\* the buckets after the traversal of Renderer::render classified handle
Classify(pool, handle, buckets) ==
    IF ~IsSome(borrow_node(pool, handle)) THEN buckets
    ELSE IF Unwrap(borrow_node(pool, handle)).kind.tag = "Mesh"
    THEN [buckets EXCEPT !.meshes = Append(@, handle)]
    ELSE IF Unwrap(borrow_node(pool, handle)).kind.tag = "Light"
    THEN [buckets EXCEPT !.lights = Append(@, handle)]
    ELSE IF Unwrap(borrow_node(pool, handle)).kind.tag = "Camera"
    THEN [buckets EXCEPT !.cameras = Append(@, handle)]
    ELSE buckets

\* a traversal that takes the oldest entry instead of popping the newest
RECURSIVE RenderTraverse_fifo(_, _, _, _)
RenderTraverse_fifo(pool, stk, buckets, fuel) ==
    IF stk = <<>> \/ fuel = 0
    THEN [buckets EXCEPT !.traversal_stack = stk]
    ELSE RenderTraverse_fifo(pool,
                             Tail(stk) \o PushedChildren(pool, Head(stk)),
                             Classify(pool, Head(stk), buckets),
                             fuel - 1)

\* the traversal loop of Renderer::render run for at most `fuel` iterations
RECURSIVE RenderTraverse(_, _, _, _)
RenderTraverse(pool, stk, buckets, fuel) ==
    IF stk = <<>> \/ fuel = 0
    THEN [buckets EXCEPT !.traversal_stack = stk]
    ELSE RenderTraverse(pool,
                        SubSeq(stk, 1, Len(stk) - 1)
                            \o PushedChildren(pool, stk[Len(stk)]),
                        Classify(pool, stk[Len(stk)], buckets),
                        fuel - 1)

\* the buckets of one scene: cleared, then filled from root
Buckets(pool) ==
    RenderTraverse(pool, <<root>>,
                   [meshes |-> <<>>, lights |-> <<>>, cameras |-> <<>>,
                    traversal_stack |-> <<>>],
                   TraversalBound(pool))

\* a surface loop that draws only the surfaces that have a texture
RECURSIVE DrawSurfaces_skip_untextured(_, _, _, _, _, _)
DrawSurfaces_skip_untextured(surfaces, k, camera, mesh, list, out) ==
    IF k > Len(surfaces) THEN out
    ELSE DrawSurfaces_skip_untextured(surfaces, k + 1, camera, mesh, list,
            IF IsSome(surfaces[k].texture)
            THEN [surface_data |-> DrawData(surfaces[k], out.surface_data),
                  draws |-> Append(out.draws,
                               DrawCall(camera, mesh, surfaces[k], list))]
            ELSE out)

\* for surface in mesh.surfaces.iter() { surface.draw() }, from surface k
RECURSIVE DrawSurfaces(_, _, _, _, _, _)
DrawSurfaces(surfaces, k, camera, mesh, list, out) ==
    IF k > Len(surfaces) THEN out
    ELSE DrawSurfaces(surfaces, k + 1, camera, mesh, list,
            [surface_data |-> DrawData(surfaces[k], out.surface_data),
             draws |-> Append(out.draws,
                              DrawCall(camera, mesh, surfaces[k], list))])

\* for mesh_handle in self.meshes.iter(), from mesh j
RECURSIVE DrawMeshes(_, _, _, _, _, _)
DrawMeshes(pool, meshes, j, camera, list, out) ==
    IF j > Len(meshes) THEN out
    ELSE DrawMeshes(pool, meshes, j + 1, camera, list,
            IF /\ IsSome(borrow_node(pool, meshes[j]))
               /\ Unwrap(borrow_node(pool, meshes[j])).kind.tag = "Mesh"
            THEN DrawSurfaces(
                    Unwrap(borrow_node(pool, meshes[j])).kind.surfaces, 1,
                    camera, meshes[j], list, out)
            ELSE out)

\* a camera loop that renders with the first camera only
DrawCameras_first_only(pool, cameras, i, meshes, list, out) ==
    IF cameras = <<>> THEN out
    ELSE IF /\ IsSome(borrow_node(pool, cameras[1]))
            /\ Unwrap(borrow_node(pool, cameras[1])).kind.tag = "Camera"
    THEN DrawMeshes(pool, meshes, 1, cameras[1], list, out)
    ELSE out

\* for camera_handle in self.cameras.iter(), from camera i
RECURSIVE DrawCameras(_, _, _, _, _, _)
DrawCameras(pool, cameras, i, meshes, list, out) ==
    IF i > Len(cameras) THEN out
    ELSE DrawCameras(pool, cameras, i + 1, meshes, list,
            IF /\ IsSome(borrow_node(pool, cameras[i]))
               /\ Unwrap(borrow_node(pool, cameras[i])).kind.tag = "Camera"
            THEN DrawMeshes(pool, meshes, 1, cameras[i], list, out)
            ELSE out)

\* Renderer::render of one scene: the geometry after it and the draw calls
\* it issued, in order
render(pool, sd, list) ==
    DrawCameras(pool, Buckets(pool).cameras, 1, Buckets(pool).meshes, list,
                [surface_data |-> sd, draws |-> <<>>])

----------------------------------------------------------------------------
(* The handles a caller can pass: those returned by add_node (live or       *)
(* stale), the scene's root and the none sentinel.                          *)

Range(s) == {s[i] : i \in DOMAIN s}

CallerHandles == Range(issued) \cup {root, HandleNone}

\* the positions given to nodes
Positions == {<<0, 2, 0>>, <<0, 0, -5>>}

AspectRatios == {1}

----------------------------------------------------------------------------
(* Actions *)

\* Engine::new: no resource, no geometry, nothing drawn
EngineNew ==
    /\ resources = <<>>
    /\ loads = [p \in Paths |-> <<>>]
    /\ granted = [p \in Paths |-> {}]
    /\ requests = 0
    /\ gl_textures = 0
    /\ surface_data = <<>>
    /\ draws = <<>>
    /\ phase = "idle"

\* Scene::new, in a new engine
Init ==
    /\ nodes = spawn(PoolNew, NodeNew(0, KindBase)).pool
    /\ root = spawn(PoolNew, NodeNew(0, KindBase)).handle
    /\ stack = <<>>
    /\ pc = "idle"
    /\ aspect_ratio = 1
    /\ issued = <<>>
    /\ freed = <<>>
    /\ EngineNew

\* add_node of a node built by Node::new and set_local_position; its name is
\* the number of the call
AddNode(max, pos) ==
    /\ pc = "idle"
    /\ Len(issued) < max
    /\ LET added == add_node(nodes,
                        set_local_position(
                            NodeNew(Len(issued) + 1, KindBase), pos))
       IN  /\ nodes' = added.pool
           /\ issued' = Append(issued, added.handle)
    /\ UNCHANGED <<root, stack, pc, aspect_ratio, freed>>
    /\ phase = "idle"
    /\ UNCHANGED engine_vars

RemoveNode(h) ==
    /\ pc = "idle"
    /\ nodes' = remove_node(nodes, h)
    /\ freed' = IF IsValidHandle(nodes, h) THEN Append(freed, h) ELSE freed
    /\ UNCHANGED <<root, stack, pc, aspect_ratio, issued>>
    /\ phase = "idle"
    /\ UNCHANGED engine_vars

LinkNodes(c, p) ==
    /\ pc = "idle"
    /\ nodes' = link_nodes(nodes, c, p)
    /\ UNCHANGED <<root, stack, pc, aspect_ratio, issued, freed>>
    /\ phase = "idle"
    /\ UNCHANGED engine_vars

UnlinkNode(h) ==
    /\ pc = "idle"
    /\ nodes' = unlink_node(nodes, h)
    /\ UNCHANGED <<root, stack, pc, aspect_ratio, issued, freed>>
    /\ phase = "idle"
    /\ UNCHANGED engine_vars

\* borrow_node_mut(h) and, when it resolves, set_local_position(pos)
SetLocalPosition(h, pos) ==
    /\ pc = "idle"
    /\ nodes' = IF IsSome(borrow_node(nodes, h))
                THEN Store(nodes, h,
                        set_local_position(Unwrap(borrow_node(nodes, h)), pos))
                ELSE nodes
    /\ UNCHANGED <<root, stack, pc, aspect_ratio, issued, freed>>
    /\ phase = "idle"
    /\ UNCHANGED engine_vars

\* Scene::update, step by step: clear and seed the stack ...
UpdateBegin ==
    /\ pc = "idle"
    /\ \E a \in AspectRatios : aspect_ratio' = a
    /\ stack' = <<root>>
    /\ pc' = "update"
    /\ UNCHANGED <<nodes, root, issued, freed>>
    /\ phase = "idle"
    /\ UNCHANGED engine_vars

\* a step that pushes the children of the node twice
UpdateStep_push_twice ==
    /\ pc = "update"
    /\ stack # <<>>
    /\ LET handle == stack[Len(stack)]
           popped == SubSeq(stack, 1, Len(stack) - 1)
       IN  /\ Len(popped) + 2 * Len(PushedChildren(nodes, handle)) <= MaxStack
           /\ nodes' = UpdateNode(nodes, handle, aspect_ratio)
           /\ stack' = popped \o PushedChildren(nodes, handle)
                              \o PushedChildren(nodes, handle)
    /\ UNCHANGED <<root, pc, aspect_ratio, issued, freed>>
    /\ phase = "idle"
    /\ UNCHANGED engine_vars

\* a step that pushes the children of a node that has some without
\* recomputing the node
UpdateStep_skip_parents ==
    /\ pc = "update"
    /\ stack # <<>>
    /\ LET handle == stack[Len(stack)]
           popped == SubSeq(stack, 1, Len(stack) - 1)
       IN  /\ Len(popped) + Len(PushedChildren(nodes, handle)) <= MaxStack
           /\ nodes' = IF PushedChildren(nodes, handle) = <<>>
                       THEN UpdateNode(nodes, handle, aspect_ratio)
                       ELSE nodes
           /\ stack' = popped \o PushedChildren(nodes, handle)
    /\ UNCHANGED <<root, pc, aspect_ratio, issued, freed>>
    /\ phase = "idle"
    /\ UNCHANGED engine_vars

\* ... pop one handle and process it ...
UpdateStep ==
    /\ pc = "update"
    /\ stack # <<>>
    /\ LET handle == stack[Len(stack)]
           popped == SubSeq(stack, 1, Len(stack) - 1)
       IN  /\ Len(popped) + Len(PushedChildren(nodes, handle)) <= MaxStack
           /\ nodes' = UpdateNode(nodes, handle, aspect_ratio)
           /\ stack' = popped \o PushedChildren(nodes, handle)
    /\ UNCHANGED <<root, pc, aspect_ratio, issued, freed>>
    /\ phase = "idle"
    /\ UNCHANGED engine_vars

\* ... and return when the stack is empty
UpdateReturn ==
    /\ pc = "update"
    /\ stack = <<>>
    /\ pc' = "idle"
    /\ UNCHANGED <<nodes, root, stack, aspect_ratio, issued, freed>>
    /\ phase = "idle"
    /\ UNCHANGED engine_vars

\* Scene::update as one step; it has no successor when the loop never ends
Update ==
    /\ pc = "idle"
    /\ \E a \in AspectRatios :
          LET done == update(nodes, a)
          IN  /\ done.stack = <<>>
              /\ nodes' = done.nodes
              /\ aspect_ratio' = a
    /\ stack' = <<>>
    /\ UNCHANGED <<root, pc, issued, freed>>
    /\ phase = "idle"
    /\ UNCHANGED engine_vars

\* the bookkeeping of one request_texture(path) call with result r
Requested(path, r) ==
    /\ resources' = r.resources
    /\ loads' = IF IsSome(r.load)
                THEN [loads EXCEPT ![path] = Append(@, Unwrap(r.load))]
                ELSE loads
    /\ granted' = IF IsSome(r.result)
                  THEN [granted EXCEPT ![path] = @ \cup {Unwrap(r.result)}]
                  ELSE granted
    /\ requests' = requests + 1

\* Engine::request_texture(path); ok is whether the image can be loaded
RequestTexture(path, ok) ==
    /\ pc = "idle" /\ phase = "idle"
    /\ requests < MaxRequests
    /\ Requested(path, request_texture(resources, path, ok))
    /\ UNCHANGED <<gl_textures, surface_data, draws, phase>>
    /\ UNCHANGED scene_vars

\* the mesh Level::new builds: make_cube on new shared data (with a second
\* surface on the same data when `extra`), then the texture when the
\* request returned one
LevelMesh(extra, r) ==
    LET cube == make_cube(MeshDefault, Len(surface_data) + 1)
        mesh == IF extra
                THEN [cube EXCEPT !.surfaces =
                        Append(@, SurfaceNew(Len(surface_data) + 1))]
                ELSE cube
    IN  IF IsSome(r.result)
        THEN apply_texture(mesh, Unwrap(r.result), r.resources)
        ELSE mesh

\* one block of Level::new: a cube mesh, textured when request_texture
\* returns a resource, added to the scene as a Mesh node
LevelAddMesh(path, ok, extra) ==
    /\ pc = "idle" /\ phase = "idle"
    /\ requests < MaxRequests
    /\ Len(issued) < MaxRenderNodes
    /\ Requested(path, request_texture(resources, path, ok))
    /\ surface_data' = Append(surface_data, SurfaceSharedDataNew)
    /\ LET added == add_node(nodes,
                        NodeNew(Len(issued) + 1,
                                LevelMesh(extra,
                                    request_texture(resources, path, ok))))
       IN  /\ nodes' = added.pool
           /\ issued' = Append(issued, added.handle)
    /\ UNCHANGED <<gl_textures, draws, phase>>
    /\ UNCHANGED <<root, stack, pc, aspect_ratio, freed>>

\* Player::new: a Camera node added to the scene
AddCameraNode ==
    /\ pc = "idle" /\ phase = "idle"
    /\ Len(issued) < MaxRenderNodes
    /\ LET added == add_node(nodes, NodeNew(Len(issued) + 1, CameraDefault))
       IN  /\ nodes' = added.pool
           /\ issued' = Append(issued, added.handle)
    /\ UNCHANGED <<root, stack, pc, aspect_ratio, freed>>
    /\ UNCHANGED engine_vars

\* add_node of a node that has no geometry: a pivot (Base), a light or a
\* camera
AddGraphNode(max, kind) ==
    /\ pc = "idle" /\ phase = "idle"
    /\ Len(issued) < max
    /\ LET added == add_node(nodes, NodeNew(Len(issued) + 1, kind))
       IN  /\ nodes' = added.pool
           /\ issued' = Append(issued, added.handle)
    /\ UNCHANGED <<root, stack, pc, aspect_ratio, freed>>
    /\ UNCHANGED engine_vars

\* add_node of a cube mesh without texture, of one surface or (extra) two,
\* placed at pos
AddMeshNode(max, extra, pos) ==
    /\ pc = "idle" /\ phase = "idle"
    /\ Len(issued) < max
    /\ surface_data' = Append(surface_data, SurfaceSharedDataNew)
    /\ LET added == add_node(nodes,
                        set_local_position(
                            NodeNew(Len(issued) + 1,
                                    LevelMesh(extra, [result |-> None])),
                            pos))
       IN  /\ nodes' = added.pool
           /\ issued' = Append(issued, added.handle)
    /\ UNCHANGED <<resources, loads, granted, requests, gl_textures, draws,
                   phase>>
    /\ UNCHANGED <<root, stack, pc, aspect_ratio, freed>>

\* an Engine::render that goes on to Renderer::render without
\* upload_resources
EngineRenderUpload_no_upload(fail) ==
    /\ pc = "idle" /\ phase = "idle"
    /\ phase' = "uploaded"
    /\ UNCHANGED <<resources, gl_textures, loads, granted, requests,
                   surface_data, draws>>
    /\ UNCHANGED scene_vars

\* Engine::render, first half: Renderer::upload_resources; fail holds the
\* resources for which gl.create_texture reports an error
EngineRenderUpload(fail) ==
    /\ pc = "idle" /\ phase = "idle"
    /\ resources' = upload_resources(resources, gl_textures, fail).resources
    /\ gl_textures'
         = upload_resources(resources, gl_textures, fail).gl_textures
    /\ phase' = "uploaded"
    /\ UNCHANGED <<loads, granted, requests, surface_data, draws>>
    /\ UNCHANGED scene_vars

\* Engine::render, second half: Renderer::render of the scene
EngineRenderDraw ==
    /\ phase = "uploaded"
    /\ Buckets(nodes).traversal_stack = <<>>
    /\ surface_data' = render(nodes, surface_data, resources).surface_data
    /\ draws' = render(nodes, surface_data, resources).draws
    /\ phase' = "idle"
    /\ UNCHANGED <<resources, loads, granted, requests, gl_textures>>
    /\ UNCHANGED scene_vars

\* what get_uniform_location("worldViewProjection") can return
UniformLocations == {None, Some(0)}

\* a render that, when the uniform is not found, skips the draws of the
\* scene and goes on
EngineRenderDrawWith_skip(u_wvp) ==
    /\ phase = "uploaded"
    /\ Buckets(nodes).traversal_stack = <<>>
    /\ IF IsSome(u_wvp)
       THEN /\ surface_data'
                 = render(nodes, surface_data, resources).surface_data
            /\ draws' = render(nodes, surface_data, resources).draws
       ELSE /\ surface_data' = surface_data
            /\ draws' = <<>>
    /\ phase' = "idle"
    /\ UNCHANGED <<resources, loads, granted, requests, gl_textures>>
    /\ UNCHANGED scene_vars

\* Engine::render, second half, with the result u_wvp of the uniform
\* lookup: the traversal, then the unwrap of the lookup, which panics on
\* None, then the draws
EngineRenderDrawWith(u_wvp) ==
    /\ phase = "uploaded"
    /\ Buckets(nodes).traversal_stack = <<>>
    /\ IF IsSome(u_wvp)
       THEN /\ surface_data'
                 = render(nodes, surface_data, resources).surface_data
            /\ draws' = render(nodes, surface_data, resources).draws
            /\ phase' = "idle"
       ELSE /\ surface_data' = surface_data
            /\ draws' = <<>>
            /\ phase' = "panicked"
    /\ UNCHANGED <<resources, loads, granted, requests, gl_textures>>
    /\ UNCHANGED scene_vars

\* a MainEventsCleared handler that runs Level::update without
\* Engine::update
MainEventsCleared_no_engine_update(h, pos) ==
    /\ pc = "idle" /\ phase = "idle"
    /\ nodes' = IF IsSome(borrow_node(nodes, h))
                THEN Store(nodes, h,
                        set_local_position(
                            Unwrap(borrow_node(nodes, h)), pos))
                ELSE nodes
    /\ phase' = "updated"
    /\ UNCHANGED <<root, stack, pc, aspect_ratio, issued, freed>>
    /\ UNCHANGED <<resources, loads, granted, requests, gl_textures,
                   surface_data, draws>>

\* Game::run, Event::MainEventsCleared: Level::update moves a node of the
\* scene, then Engine::update runs Scene::update on the scene
MainEventsCleared(h, pos) ==
    /\ pc = "idle" /\ phase = "idle"
    /\ \E a \in AspectRatios :
          LET moved == IF IsSome(borrow_node(nodes, h))
                       THEN Store(nodes, h,
                               set_local_position(
                                   Unwrap(borrow_node(nodes, h)), pos))
                       ELSE nodes
              done == update(moved, a)
          IN  /\ done.stack = <<>>
              /\ nodes' = done.nodes
              /\ aspect_ratio' = a
    /\ phase' = "updated"
    /\ UNCHANGED <<root, stack, pc, issued, freed>>
    /\ UNCHANGED <<resources, loads, granted, requests, gl_textures,
                   surface_data, draws>>

\* Game::run, Event::RedrawEventsCleared, which the event loop emits after
\* MainEventsCleared: Engine::render, first half
RedrawEventsCleared(fail) ==
    /\ pc = "idle" /\ phase = "updated"
    /\ resources' = upload_resources(resources, gl_textures, fail).resources
    /\ gl_textures'
         = upload_resources(resources, gl_textures, fail).gl_textures
    /\ phase' = "uploaded"
    /\ UNCHANGED <<loads, granted, requests, surface_data, draws>>
    /\ UNCHANGED scene_vars

----------------------------------------------------------------------------
(* Specifications *)

\* the scene graph: every operation with every handle a caller can hold
Next ==
    \/ AddNode(MaxNodes, Zeros)
    \/ \E h \in CallerHandles : RemoveNode(h)
    \/ \E c \in CallerHandles, p \in CallerHandles : LinkNodes(c, p)
    \/ \E h \in CallerHandles : UnlinkNode(h)
    \/ UpdateBegin
    \/ UpdateStep
    \/ UpdateReturn

Spec == Init /\ [][Next]_vars

\* the pool seen through the scene: spawn (add_node) and free (remove_node)
NextPool ==
    \/ AddNode(MaxPoolSpawns, Zeros)
    \/ \E h \in CallerHandles : RemoveNode(h)

SpecPool == Init /\ [][NextPool]_vars

\* transforms: a tree is built under root and its nodes are moved between
\* updates
NextTransform ==
    \/ \E pos \in Positions : AddNode(MaxXfNodes, pos)
    \/ \E c \in Range(issued) :
          \E p \in (Range(issued) \cup {root}) \ {c} : LinkNodes(c, p)
    \/ \E h \in Range(issued), pos \in Positions : SetLocalPosition(h, pos)
    \/ Update

SpecTransform == Init /\ [][NextTransform]_vars

\* deep chains: one more node, every node at the same position
NextChain ==
    \/ AddNode(MaxChainNodes, <<0, 2, 0>>)
    \/ \E c \in Range(issued), p \in Range(issued) \cup {root} :
          LinkNodes(c, p)
    \/ Update

SpecChain == Init /\ [][NextChain]_vars

\* the engine: textures are requested, meshes and cameras are added and
\* frames are rendered
NextEngine ==
    \/ \E path \in Paths, ok \in BOOLEAN : RequestTexture(path, ok)
    \/ \E path \in Paths, ok \in BOOLEAN, extra \in BOOLEAN :
          LevelAddMesh(path, ok, extra)
    \/ AddCameraNode
    \/ \E fail \in SUBSET (1..Len(resources)) : EngineRenderUpload(fail)
    \/ EngineRenderDraw

SpecEngine == Init /\ [][NextEngine]_vars

----------------------------------------------------------------------------
(* Pool claims, under SpecPool *)

IsFreeSlot(pool, i) == i \in 1..capacity(pool) /\ ~IsOccupied(pool.records[i])

HasFreeSlot(pool) == \E i \in 1..capacity(pool) : IsFreeSlot(pool, i)

\* the position in the log of the last freed handle whose slot is still free
RECURSIVE LastFreeEntry(_, _, _)
LastFreeEntry(pool, log, k) ==
    IF k = 0 THEN 0
    ELSE IF IsFreeSlot(pool, log[k].index) THEN k
    ELSE LastFreeEntry(pool, log, k - 1)

MostRecentlyFreed(pool, log) == log[LastFreeEntry(pool, log, Len(log))]

\* C1: a handle returned by add_node resolves, through borrow_node, only to
\* the node it was returned for (the k-th handle to the node named k, the
\* root handle to the node named 0), never to a node a later spawn placed in
\* the same slot, and a handle that remove_node has freed resolves to nothing
\* in every later state.
C1_GenerationalSafety ==
    /\ \A k \in DOMAIN issued :
          /\ IsSome(borrow_node(nodes, issued[k]))
                => Unwrap(borrow_node(nodes, issued[k])).name = k
          /\ issued[k] \in Range(freed)
                => borrow_node(nodes, issued[k]) = None
    /\ IsSome(borrow_node(nodes, root))
          => Unwrap(borrow_node(nodes, root)).name = 0
    /\ root \in Range(freed) => borrow_node(nodes, root) = None

\* a freed handle whose slot holds a node that a later spawn placed there
C1_Witness ==
    \E k \in DOMAIN issued :
        /\ issued[k] \in Range(freed)
        /\ IsSome(at(nodes, issued[k].index))
        /\ Unwrap(at(nodes, issued[k].index)).name > k

\* the handles free is tried with: the callers' and one past the last slot
FreeInputs == CallerHandles \cup {Handle(capacity(nodes) + 1, 0)}

\* C9: remove_node (Pool::free) of a handle that does not resolve (freed
\* before, generation mismatch, out of range, the none sentinel) leaves the
\* pool as it is, slots, generations and free list, so it never removes a
\* newer occupant of the slot; and freeing a handle twice gives the pool that
\* freeing it once gives.
C9_FreeStaleIsNoOp ==
    \A h \in FreeInputs :
        /\ ~IsSome(borrow(nodes, h)) => remove_node(nodes, h) = nodes
        /\ remove_node(remove_node(nodes, h), h) = remove_node(nodes, h)

\* a stale handle whose slot has a newer occupant, with another slot free
C9_Witness ==
    \E h \in Range(freed) :
        /\ IsSome(at(nodes, h.index))
        /\ ~IsSome(borrow(nodes, h))
        /\ nodes.free_head # InvalidIndex

\* the last handle add_node returned
LastIssued(log) == log[Len(log)]

\* C10: when a slot is free, spawn (add_node) returns the index of the most
\* recently freed slot that is still free, with a generation greater than
\* that of the freed handle, and the capacity is unchanged; when no slot is
\* free it appends a slot and returns its index with generation 0. The new
\* handle resolves and the freed one does not.
C10_LifoReuse ==
    [][Len(issued') = Len(issued) + 1 =>
        /\ IsSome(borrow(nodes', LastIssued(issued')))
        /\ IF HasFreeSlot(nodes)
           THEN /\ LastIssued(issued').index =
                      MostRecentlyFreed(nodes, freed).index
                /\ LastIssued(issued').generation >
                      MostRecentlyFreed(nodes, freed).generation
                /\ capacity(nodes') = capacity(nodes)
                /\ borrow(nodes', MostRecentlyFreed(nodes, freed)) = None
           ELSE /\ LastIssued(issued').index = capacity(nodes) + 1
                /\ LastIssued(issued').generation = 0
                /\ capacity(nodes') = capacity(nodes) + 1]_vars

\* two slots were free and the last spawn took the one freed last
C10_Witness ==
    /\ Len(freed) >= 2
    /\ Len(issued) >= 1
    /\ LastIssued(issued).index = freed[Len(freed)].index
    /\ LastIssued(issued).generation > freed[Len(freed)].generation
    /\ IsSome(borrow(nodes, LastIssued(issued)))
    /\ IsFreeSlot(nodes, freed[Len(freed) - 1].index)

\* the values the round trip is tried with in every pool state
SpawnValues == {NodeNew(7, KindBase), set_local_position(NodeNew(8, KindBase),
                                                         <<0, 2, 0>>)}

\* the node the k-th add_node call stored: the node it was given, linked
\* under root
StoredNode(k) ==
    [set_local_position(NodeNew(k, KindBase), Zeros) EXCEPT !.parent = root]

\* C11: in every pool state, the empty one included, borrow of the handle
\* spawn(v) returns gives v in the pool spawn leaves, and writing through
\* borrow_mut and reading back gives the written value; and every handle
\* add_node returned keeps resolving to the node stored under it until
\* remove_node frees it, whatever was spawned or freed in between.
C11_PoolRoundTrip ==
    /\ \A v \in SpawnValues :
          /\ borrow(spawn(nodes, v).pool, spawn(nodes, v).handle) = Some(v)
          /\ borrow(spawn(PoolNew, v).pool, spawn(PoolNew, v).handle)
                = Some(v)
    /\ \A k \in DOMAIN issued :
          issued[k] \notin Range(freed) =>
              /\ borrow_node(nodes, issued[k]) = Some(StoredNode(k))
              /\ \A v \in SpawnValues :
                    borrow(Store(nodes, issued[k], v), issued[k]) = Some(v)

\* a handle that still resolves to its node after a later handle was freed
\* and the freed slot was given to a third node
C11_Witness ==
    \E k \in DOMAIN issued, j \in DOMAIN issued, m \in DOMAIN issued :
        /\ k < j /\ j < m
        /\ issued[k] \notin Range(freed)
        /\ issued[j] \in Range(freed)
        /\ issued[m].index = issued[j].index
        /\ borrow_node(nodes, issued[k]) = Some(StoredNode(k))
        /\ IsSome(borrow_node(nodes, issued[m]))

\* the handles that name no live value of the pool: the none sentinel, an
\* index past the last slot, the current generation of a free slot, and
\* every other generation of an occupied slot
OutOfRangeHandles(pool) ==
    {Handle(capacity(pool) + 1, g) : g \in 0..1}

FreeSlotHandles(pool) ==
    {Handle(i, pool.records[i].generation) :
        i \in {j \in 1..capacity(pool) : IsFreeSlot(pool, j)}}

MismatchedHandles(pool) ==
    UNION {{Handle(i, g) :
               g \in (0..(pool.records[i].generation + 1))
                        \ {pool.records[i].generation}} :
           i \in {j \in 1..capacity(pool) :
                    IsOccupied(pool.records[j])}}

InvalidHandles(pool) ==
    {HandleNone} \cup OutOfRangeHandles(pool) \cup FreeSlotHandles(pool)
        \cup MismatchedHandles(pool)

\* C12: borrow_node (Pool::borrow and borrow_mut) gives the empty result,
\* not an error and not another slot's value, for the none sentinel, for an
\* index out of range, for a free slot and for a generation other than the
\* slot's.
C12_BorrowInvalidIsEmpty ==
    \A h \in InvalidHandles(nodes) : borrow_node(nodes, h) = None

\* a pool with a free slot next to an occupied slot that was reused, so
\* that handles of each invalid kind exist
C12_Witness ==
    /\ FreeSlotHandles(nodes) # {}
    /\ \E h \in MismatchedHandles(nodes) :
          /\ h \in Range(freed)
          /\ IsSome(at(nodes, h.index))
    /\ \A h \in InvalidHandles(nodes) : borrow_node(nodes, h) = None

\* the slots on the free list, from its head
RECURSIVE FreeListFrom(_, _, _)
FreeListFrom(pool, i, fuel) ==
    IF i = InvalidIndex \/ fuel = 0 THEN <<>>
    ELSE <<i>> \o FreeListFrom(pool, pool.records[i].next_free_index,
                               fuel - 1)

FreeList(pool) == FreeListFrom(pool, pool.free_head, capacity(pool) + 1)

\* the number of entries of the scan that are the node named k
Visits(pool, k) ==
    Cardinality({i \in DOMAIN alive(pool) : alive(pool)[i].name = k})

ScanIsExact ==
    \* capacity counts the occupied slots and the free ones, each free slot
    \* being on the free list once
    /\ Len(FreeList(nodes)) + Len(alive(nodes)) = capacity(nodes)
    /\ Range(FreeList(nodes))
          = {i \in 1..capacity(nodes) : IsFreeSlot(nodes, i)}
    \* at(i) has a value exactly on the occupied slots
    /\ \A i \in 0..(capacity(nodes) + 1) :
          IsSome(at(nodes, i))
              <=> (i \in 1..capacity(nodes) /\ ~IsFreeSlot(nodes, i))
    \* the scan visits every live node once and no freed one
    /\ \A k \in DOMAIN issued :
          Visits(nodes, k)
              = IF issued[k] \in Range(freed) THEN 0 ELSE 1
    /\ Visits(nodes, 0) = IF root \in Range(freed) THEN 0 ELSE 1
    /\ Len(alive(nodes))
          = Cardinality((Range(issued) \cup {root}) \ Range(freed))

\* C13: capacity is the number of slots, free ones included, and no spawn
\* or free step lowers it; at(i) has a value exactly when slot i is
\* occupied; so the scan over 0..capacity visits every live object exactly
\* once and no freed one.
C13_IndexScan ==
    /\ []ScanIsExact
    /\ [][capacity(nodes') >= capacity(nodes)]_vars

\* the scan skips a free slot that lies between two occupied ones, after a
\* freed slot was reused
C13_Witness ==
    /\ \E i \in 2..(capacity(nodes) - 1) :
          /\ IsFreeSlot(nodes, i)
          /\ IsSome(at(nodes, i - 1))
          /\ IsSome(at(nodes, i + 1))
    /\ \E h \in Range(freed) : IsSome(at(nodes, h.index))
    /\ Len(alive(nodes)) >= 2
    /\ Len(alive(nodes)) < capacity(nodes)

----------------------------------------------------------------------------
(* Scene graph claims, under Spec *)

LiveHandles == {h \in CallerHandles : IsSome(borrow(nodes, h))}

NodeAt(pool, h) == Unwrap(borrow(pool, h))

Count(s, x) == Cardinality({i \in DOMAIN s : s[i] = x})

LiveSlots(pool) == {i \in 1..capacity(pool) : IsOccupied(pool.records[i])}

SlotNode(pool, i) == Unwrap(pool.records[i].payload)

\* the handle that resolves to the node in slot i
SlotHandle(pool, i) == Handle(i, pool.records[i].generation)

Without(s, x) == SelectSeq(s, LAMBDA y : y # x)

\* C2: between operations, for all live handles c and p, link_nodes(c, p)
\* leaves c.parent = p and c exactly once in p.children, and the node that
\* was c's parent before the call, when it is another node than p, no longer
\* has c among its children.
C2_LinkPostcondition ==
    pc = "idle" =>
        \A c \in LiveHandles, p \in LiveHandles :
            /\ IsSome(borrow(link_nodes(nodes, c, p), c))
            /\ NodeAt(link_nodes(nodes, c, p), c).parent = p
            /\ Count(NodeAt(link_nodes(nodes, c, p), p).children, c) = 1
            /\ (/\ NodeAt(nodes, c).parent # p
                /\ IsSome(borrow(nodes, NodeAt(nodes, c).parent)))
                 => Count(NodeAt(link_nodes(nodes, c, p),
                                 NodeAt(nodes, c).parent).children, c) = 0

\* link_nodes has moved a node from under root to under another node
C2_Witness ==
    \E c \in Range(issued), p \in Range(issued) :
        /\ c # p
        /\ IsSome(borrow(nodes, c))
        /\ IsSome(borrow(nodes, p))
        /\ IsSome(borrow(nodes, root))
        /\ NodeAt(nodes, c).parent = p
        /\ Count(NodeAt(nodes, p).children, c) = 1
        /\ Count(NodeAt(nodes, root).children, c) = 0
        /\ Count(NodeAt(nodes, root).children, p) = 1

\* C3: between operations, for every live handle c, unlink_node(c) leaves
\* c.parent = none and c in no live node's children; the slots, generations
\* and free list, every other node's parent, every other entry of every
\* children sequence and every other field are as before.
C3_UnlinkPostcondition ==
    pc = "idle" =>
        \A c \in LiveHandles :
            /\ NodeAt(unlink_node(nodes, c), c).parent = HandleNone
            /\ unlink_node(nodes, c).free_head = nodes.free_head
            /\ capacity(unlink_node(nodes, c)) = capacity(nodes)
            /\ \A i \in 1..capacity(nodes) :
                  IF IsOccupied(nodes.records[i])
                  THEN /\ IsOccupied(unlink_node(nodes, c).records[i])
                       /\ unlink_node(nodes, c).records[i].generation
                            = nodes.records[i].generation
                       /\ SlotNode(unlink_node(nodes, c), i).children
                            = Without(SlotNode(nodes, i).children, c)
                       /\ i # c.index =>
                            SlotNode(unlink_node(nodes, c), i).parent
                                = SlotNode(nodes, i).parent
                       /\ [SlotNode(unlink_node(nodes, c), i) EXCEPT
                              !.parent = HandleNone, !.children = <<>>]
                            = [SlotNode(nodes, i) EXCEPT
                              !.parent = HandleNone, !.children = <<>>]
                  ELSE unlink_node(nodes, c).records[i] = nodes.records[i]

\* unlink_node has detached a live node: it has no parent and is in no
\* children sequence, while another node is still under root
C3_Witness ==
    \E c \in Range(issued), d \in Range(issued) :
        /\ c # d
        /\ IsSome(borrow(nodes, c))
        /\ IsSome(borrow(nodes, d))
        /\ IsSome(borrow(nodes, root))
        /\ NodeAt(nodes, c).parent = HandleNone
        /\ \A i \in LiveSlots(nodes) : Count(SlotNode(nodes, i).children, c) = 0
        /\ NodeAt(nodes, d).parent = root
        /\ Count(NodeAt(nodes, root).children, d) = 1

\* C4: after every completed operation, for every live node n: a parent
\* other than none resolves to a live node whose children contain n, and
\* every handle in n.children resolves to a live node whose parent is n.
C4_ParentChildrenConsistent ==
    pc = "idle" =>
        \A i \in LiveSlots(nodes) :
            /\ SlotNode(nodes, i).parent # HandleNone =>
                  /\ IsSome(borrow(nodes, SlotNode(nodes, i).parent))
                  /\ Count(NodeAt(nodes, SlotNode(nodes, i).parent).children,
                           SlotHandle(nodes, i)) >= 1
            /\ \A k \in DOMAIN SlotNode(nodes, i).children :
                  /\ IsSome(borrow(nodes, SlotNode(nodes, i).children[k]))
                  /\ NodeAt(nodes, SlotNode(nodes, i).children[k]).parent
                       = SlotHandle(nodes, i)

\* C5: in every state the root handle resolves to a live node and that node
\* has no parent.
C5_RootInvariant ==
    /\ IsSome(borrow(nodes, root))
    /\ NodeAt(nodes, root).parent = HandleNone

\* the postcondition of added = add_node(pool, n)
AddNodePost(pool, n, added) ==
    \* the handle resolves to n, linked under root
    /\ borrow(added.pool, added.handle) = Some([n EXCEPT !.parent = root])
    \* root has the handle once, as its last child, and is otherwise as
    \* before
    /\ IsSome(borrow(added.pool, root))
    /\ IsSome(borrow(pool, root))
    /\ NodeAt(added.pool, root)
          = [NodeAt(pool, root) EXCEPT !.children = Append(@, added.handle)]
    /\ Count(NodeAt(added.pool, root).children, added.handle) = 1
    \* every other node is as before
    /\ \A i \in 1..capacity(pool) :
          (i # root.index /\ i # added.handle.index)
              => added.pool.records[i] = pool.records[i]

RemoveNodePost(pool, h, after) ==
    /\ borrow_node(after, h) = None
    /\ capacity(after) = capacity(pool)
    \* the former parent, when it is another live node, holds h as before
    /\ (NodeAt(pool, h).parent # h /\ IsSome(borrow(pool, NodeAt(pool, h).parent)))
          => /\ IsSome(borrow(after, NodeAt(pool, h).parent))
             /\ NodeAt(after, NodeAt(pool, h).parent).children
                  = NodeAt(pool, NodeAt(pool, h).parent).children
    \* the former children that were live are live, with the parent they had
    /\ \A k \in DOMAIN NodeAt(pool, h).children :
          LET c == NodeAt(pool, h).children[k]
          IN  (c # h /\ IsSome(borrow(pool, c)))
                 => /\ IsSome(borrow(after, c))
                    /\ NodeAt(after, c).parent = NodeAt(pool, c).parent
    \* no other slot is modified
    /\ \A i \in 1..capacity(pool) :
          i # h.index => after.records[i] = pool.records[i]

\* C15: between operations, remove_node(h) on a live h makes h resolve to
\* nothing and changes no other slot: the children sequence of h's former
\* parent still holds h, and the former children of h are still live with
\* their parent field still h.
C15_RemoveFreesOnlySlot ==
    pc = "idle" =>
        \A h \in LiveHandles : RemoveNodePost(nodes, h, remove_node(nodes, h))

\* remove_node has freed a node that had a parent and a child: the live
\* parent still lists the freed handle and the live child still names it as
\* its parent
C15_Witness ==
    \E h \in Range(freed) \cap Range(issued) :
        /\ borrow_node(nodes, h) = None
        /\ at(nodes, h.index) = None
        /\ IsSome(borrow(nodes, root))
        /\ Count(NodeAt(nodes, root).children, h) = 1
        /\ \E c \in Range(issued) :
              /\ IsSome(borrow(nodes, c))
              /\ NodeAt(nodes, c).parent = h

\* C16: between operations, link_nodes(c, p) with a child handle or a
\* parent handle that does not resolve changes no node: no parent field and
\* no children sequence, so the child stays attached to its current parent.
C16_LinkMissingIsNoOp ==
    pc = "idle" =>
        \A c \in CallerHandles, p \in CallerHandles :
            (~IsSome(borrow(nodes, c)) \/ ~IsSome(borrow(nodes, p)))
                => link_nodes(nodes, c, p) = nodes

\* the rendered graph: pivots, lights, cameras and meshes are added, the
\* newest node is linked under another node, and frames are rendered
NextRender ==
    \/ \E kind \in {KindBase, LightDefault, CameraDefault} :
          AddGraphNode(MaxGraphNodes, kind)
    \/ \E extra \in BOOLEAN : AddMeshNode(MaxGraphNodes, extra, Zeros)
    \/ /\ issued # <<>>
       /\ \E p \in (Range(issued) \cup {root}) \ {issued[Len(issued)]} :
             LinkNodes(issued[Len(issued)], p)
    \/ EngineRenderUpload({})
    \/ EngineRenderDraw

SpecRender == Init /\ [][NextRender]_vars

\* the frame loop: Level::new builds the scene, then every iteration of the
\* event loop runs the two handlers of Game::run
NextFrame ==
    \/ /\ Len(issued) < MaxFrameNodes
       /\ \E path \in Paths, ok \in BOOLEAN : LevelAddMesh(path, ok, FALSE)
    \/ /\ Len(issued) < MaxFrameNodes
       /\ AddCameraNode
    \/ \E h \in Range(issued), pos \in Positions : MainEventsCleared(h, pos)
    \/ \E fail \in SUBSET (1..Len(resources)) : RedrawEventsCleared(fail)
    \/ EngineRenderDraw

SpecFrame == Init /\ [][NextFrame]_vars

\* frames in which the lookup of the transform uniform can fail
NextUniform ==
    \/ /\ Len(issued) < MaxFrameNodes
       /\ \E path \in Paths, ok \in BOOLEAN, extra \in BOOLEAN :
             LevelAddMesh(path, ok, extra)
    \/ /\ Len(issued) < MaxFrameNodes
       /\ AddCameraNode
    \/ \E fail \in SUBSET (1..Len(resources)) : EngineRenderUpload(fail)
    \/ \E u_wvp \in UniformLocations : EngineRenderDrawWith(u_wvp)

SpecUniform == Init /\ [][NextUniform]_vars

\* the steps of update: a tree is built of nodes at their positions, the
\* newest node is linked under another one, and Scene::update runs one
\* iteration of its loop at a time
NextOrder ==
    \/ \E pos \in Positions : AddNode(MaxOrderNodes, pos)
    \/ /\ issued # <<>>
       /\ \E p \in (Range(issued) \cup {root}) \ {issued[Len(issued)]} :
             LinkNodes(issued[Len(issued)], p)
    \/ UpdateBegin
    \/ UpdateStep
    \/ UpdateReturn

SpecOrder == Init /\ [][NextOrder]_vars

\* removal: a camera and then meshes are added, the newest node is linked
\* under the one before it, nodes are removed without being unlinked, and
\* the scene is updated and rendered
NextOrphan ==
    \/ /\ issued = <<>>
       /\ AddGraphNode(MaxOrphanNodes, CameraDefault)
    \/ /\ issued # <<>>
       /\ AddMeshNode(MaxOrphanNodes, FALSE, <<0, 2, 0>>)
    \/ /\ Len(issued) >= 2
       /\ LinkNodes(issued[Len(issued)], issued[Len(issued) - 1])
    \/ \E h \in Range(issued) : RemoveNode(h)
    \/ Update
    \/ EngineRenderUpload({})
    \/ EngineRenderDraw

SpecOrphan == Init /\ [][NextOrphan]_vars

----------------------------------------------------------------------------
(* Transform claims, under SpecTransform and SpecChain *)

\* h is reached from root: h is root, or a live node that is among the
\* children of its parent, which is reached from root
RECURSIVE IsUnderRoot(_, _, _)
IsUnderRoot(pool, h, fuel) ==
    IF ~IsSome(borrow(pool, h)) THEN FALSE
    ELSE IF h = root THEN TRUE
    ELSE IF fuel = 0 THEN FALSE
    ELSE /\ IsSome(borrow(pool, NodeAt(pool, h).parent))
         /\ Count(NodeAt(pool, NodeAt(pool, h).parent).children, h) >= 1
         /\ IsUnderRoot(pool, NodeAt(pool, h).parent, fuel - 1)

InTree(pool) ==
    {h \in Range(issued) \cup {root} : IsUnderRoot(pool, h, capacity(pool))}

\* the product of the local transforms of h and of its ancestors up to root
RECURSIVE PathProduct(_, _, _)
PathProduct(pool, h, fuel) ==
    IF h = root \/ fuel = 0 THEN LocalTransformOf(NodeAt(pool, h))
    ELSE Mul(LocalTransformOf(NodeAt(pool, h)),
             PathProduct(pool, NodeAt(pool, h).parent, fuel - 1))

\* the sum of the local positions of h and of its ancestors up to root
RECURSIVE PathSum(_, _, _)
PathSum(pool, h, fuel) ==
    IF h = root \/ fuel = 0 THEN NodeAt(pool, h).local_position
    ELSE VecAdd(NodeAt(pool, h).local_position,
                PathSum(pool, NodeAt(pool, h).parent, fuel - 1))

PathCompositionIn(pool) ==
    \A h \in InTree(pool) :
        /\ NodeAt(pool, h).global_transform
             = PathProduct(pool, h, capacity(pool))
        /\ get_global_position(NodeAt(pool, h))
             = PathSum(pool, h, capacity(pool))

\* C6: after update on a tree, the global transform of every node reached
\* from root, at any depth, is the product of the local transforms of the
\* node and of all its ancestors up to root, and its global position is the
\* sum of their local positions.
C6_GlobalIsPathComposition ==
    update(nodes, 1).stack = <<>> => PathCompositionIn(update(nodes, 1).nodes)

\* root -> a -> b: a is a child of root and b a child of a, all live
IsChain(pool, a, b) ==
    /\ IsSome(borrow(pool, root))
    /\ IsSome(borrow(pool, a))
    /\ IsSome(borrow(pool, b))
    /\ a # root /\ b # root /\ a # b
    /\ NodeAt(pool, root).parent = HandleNone
    /\ NodeAt(pool, a).parent = root
    /\ Count(NodeAt(pool, root).children, a) = 1
    /\ NodeAt(pool, b).parent = a
    /\ Count(NodeAt(pool, a).children, b) = 1

\* `done` is the result of update on `pool`
TwoLevelIn(pool, done) ==
    \A a \in Range(issued), b \in Range(issued) :
        IsChain(pool, a, b) =>
            /\ done.stack = <<>>
            /\ get_global_position(NodeAt(done.nodes, b))
                 = VecAdd(NodeAt(pool, a).local_position,
                          NodeAt(pool, b).local_position)
            /\ get_global_position(NodeAt(done.nodes, a))
                 = NodeAt(pool, a).local_position

\* C7: for a chain root -> a -> b of translation-only nodes, after one update
\* the global position of b is a.local_position + b.local_position and the
\* global position of a is a.local_position.
C7_TwoLevelScenario == TwoLevelIn(nodes, update(nodes, 1))

\* the scenario after its update: a at (0,2,0), b at (0,0,-5) under a, and
\* the global position of b is (0,2,-5)
C7_Witness ==
    \E a \in Range(issued), b \in Range(issued) :
        /\ IsChain(nodes, a, b)
        /\ NodeAt(nodes, a).local_position = <<0, 2, 0>>
        /\ NodeAt(nodes, b).local_position = <<0, 0, -5>>
        /\ get_global_position(NodeAt(nodes, a)) = <<0, 2, 0>>
        /\ get_global_position(NodeAt(nodes, b)) = <<0, 2, -5>>

\* a matrix no update computes
Bogus == new_translation(<<7, 7, 7>>)

\* the pool with every cached local and global transform overwritten
Scrub(pool) ==
    [pool EXCEPT !.records =
        [i \in 1..capacity(pool) |->
            IF IsOccupied(pool.records[i])
            THEN [pool.records[i] EXCEPT !.payload =
                    Some([SlotNode(pool, i) EXCEPT
                            !.local_transform = Bogus,
                            !.global_transform = Bogus])]
            ELSE pool.records[i]]]

\* `done` is the result of update on `pool`, `scrubbed` that of update on
\* Scrub(pool)
FreshIn(pool, done, scrubbed) ==
    /\ \A a \in Range(issued), b \in Range(issued) :
          IsChain(pool, a, b) =>
              /\ NodeAt(done.nodes, a).local_transform
                   = new_translation(NodeAt(pool, a).local_position)
              /\ NodeAt(done.nodes, b).global_transform
                   = Mul(new_translation(NodeAt(pool, b).local_position),
                         new_translation(NodeAt(pool, a).local_position))
    /\ \A h \in InTree(pool) :
          NodeAt(done.nodes, h) = NodeAt(scrubbed.nodes, h)

\* C8: for a chain root -> a -> b, whatever local transforms earlier updates
\* cached, the update recomputes a's local transform from a's current
\* position and computes b's global transform from it; and the transforms
\* the update leaves on the nodes reached from root are those it leaves
\* when every cached transform is overwritten before it runs.
C8_PropagationFreshness ==
    FreshIn(nodes, update(nodes, 1), update(Scrub(nodes), 1))

\* an update has run on root -> a -> b and a was moved afterwards: the local
\* transform a caches is not that of its position, and b's global transform
\* was computed from it
C8_Witness ==
    \E a \in Range(issued), b \in Range(issued) :
        /\ IsChain(nodes, a, b)
        /\ NodeAt(nodes, a).local_transform # Identity
        /\ NodeAt(nodes, a).local_transform
             # new_translation(NodeAt(nodes, a).local_position)
        /\ NodeAt(nodes, b).global_transform
             = Mul(NodeAt(nodes, b).local_transform,
                   NodeAt(nodes, a).local_transform)
        /\ NodeAt(nodes, b).local_position = <<0, 0, -5>>

----------------------------------------------------------------------------
(* Engine claims, under SpecEngine *)

\* C17: every successful request_texture for a path returns the same
\* instance, which is the one in the resource list under that path; no
\* Texture::load of a path is made after the first one that succeeded; and
\* the resource list holds at most one entry per path.
C17_TextureCacheIdentity ==
    /\ \A p \in Paths :
          /\ Cardinality(granted[p]) <= 1
          /\ \A rc \in granted[p] :
                /\ rc \in DOMAIN resources
                /\ resources[rc].rc = rc
                /\ resources[rc].path = p
          /\ \A i \in DOMAIN loads[p] : loads[p][i] => i = Len(loads[p])
    /\ \A i \in DOMAIN resources, j \in DOMAIN resources :
          resources[i].path = resources[j].path => i = j

\* a path was requested again after its texture was loaded: two requests,
\* one load, one instance
C17_Witness ==
    \E p \in Paths :
        /\ requests = 2
        /\ loads[p] = <<TRUE>>
        /\ \A q \in Paths \ {p} : loads[q] = <<>>
        /\ Cardinality(granted[p]) = 1
        /\ Len(resources) = 1

\* the Mesh nodes and the Camera nodes the scene holds under live handles
MeshHandles ==
    {h \in Range(issued) : /\ IsSome(borrow_node(nodes, h))
                           /\ NodeAt(nodes, h).kind.tag = "Mesh"}

CameraHandles ==
    {h \in Range(issued) : /\ IsSome(borrow_node(nodes, h))
                           /\ NodeAt(nodes, h).kind.tag = "Camera"}

\* the draw calls of log made with camera c for mesh m
CallsFor(log, c, m) ==
    {i \in DOMAIN log : log[i].camera = c /\ log[i].mesh = m}

\* C18: when the image of a path cannot be loaded, request_texture returns
\* no resource and leaves the resource list as it is; the mesh Level::new
\* builds with that result has surfaces without texture; and render draws
\* every surface of every mesh for every camera, the surfaces without
\* texture included, binding no texture for them.
C18_LoadFailureRecovered ==
    /\ \A p \in Paths :
          FindResourceFrom(resources, p, 1) = 0 =>
              /\ request_texture(resources, p, FALSE).result = None
              /\ request_texture(resources, p, FALSE).resources = resources
              /\ \A extra \in BOOLEAN :
                    LET mesh == LevelMesh(extra,
                                    request_texture(resources, p, FALSE))
                    IN  /\ Len(mesh.surfaces) >= 1
                        /\ \A k \in DOMAIN mesh.surfaces :
                              mesh.surfaces[k].texture = None
    /\ \A c \in CameraHandles, m \in MeshHandles :
          LET log == render(nodes, surface_data, resources).draws
              surfaces == NodeAt(nodes, m).kind.surfaces
          IN  /\ Cardinality(CallsFor(log, c, m)) = Len(surfaces)
              /\ \A k \in DOMAIN surfaces :
                    surfaces[k].texture = None =>
                        \E i \in CallsFor(log, c, m) :
                            /\ log[i].texture = None
                            /\ log[i].bound = None

\* the only request made was the one of a mesh block and its load failed:
\* the list is empty and the last render drew the mesh without texture
C18_Witness ==
    /\ requests = 1
    /\ \E p \in Paths : loads[p] = <<FALSE>>
    /\ resources = <<>>
    /\ MeshHandles # {}
    /\ \E i \in DOMAIN draws :
          /\ draws[i].mesh \in MeshHandles
          /\ draws[i].texture = None
          /\ draws[i].bound = None

\* the textures of list all have the flag cleared
AllUploaded(list) ==
    \A i \in DOMAIN list :
        list[i].kind.tag = "Texture" => ~list[i].kind.need_upload

\* the postcondition of after = upload_resources(list, gl, fail).resources
UploadPost(list, fail, after) ==
    /\ Len(after) = Len(list)
    /\ AllUploaded(after)
    /\ \A i \in DOMAIN list :
          \* a name already assigned is kept
          /\ IsSome(list[i].kind.gpu_tex)
                => after[i].kind.gpu_tex = list[i].kind.gpu_tex
          \* a pending texture gets a name unless GL reports an error
          /\ (list[i].kind.need_upload /\ i \notin fail)
                => IsSome(after[i].kind.gpu_tex)
          /\ (list[i].kind.need_upload /\ list[i].kind.gpu_tex = None
                 /\ i \in fail)
                => after[i].kind.gpu_tex = None
          \* a texture that is not pending is left as it is
          /\ ~list[i].kind.need_upload => after[i] = list[i]
    \* no name is given to two textures
    /\ \A i \in DOMAIN after, j \in DOMAIN after :
          (IsSome(after[i].kind.gpu_tex)
             /\ after[i].kind.gpu_tex = after[j].kind.gpu_tex) => i = j

DrawnData(log) == {log[i].data : i \in DOMAIN log}

\* a SurfaceSharedData is pending exactly as long as it was never uploaded,
\* and it is uploaded at most once
GeometryFlagExact ==
    \A d \in DOMAIN surface_data :
        /\ surface_data[d].uploads \in {0, 1}
        /\ surface_data[d].need_upload <=> surface_data[d].uploads = 0

\* a step keeps the geometry that exists; a render step uploads the pending
\* data it draws and only those, any other step uploads nothing; new shared
\* data starts pending
GeometryStep ==
    /\ Len(surface_data') >= Len(surface_data)
    /\ \A d \in DOMAIN surface_data :
          IF phase = "uploaded" /\ phase' = "idle" /\ d \in DrawnData(draws')
          THEN /\ ~surface_data'[d].need_upload
               /\ surface_data'[d].uploads
                    = IF surface_data[d].need_upload
                      THEN surface_data[d].uploads + 1
                      ELSE surface_data[d].uploads
          ELSE surface_data'[d] = surface_data[d]
    /\ \A d \in DOMAIN surface_data' \ DOMAIN surface_data :
          surface_data'[d] = [need_upload |-> TRUE, uploads |-> 0]

\* C20: a SurfaceSharedData has need_upload set from its construction until
\* the first render that draws a surface referencing it; that render
\* uploads it once, however many surfaces and cameras draw it, and no later
\* draw in any frame uploads it again or sets the flag.
C20_GeometryLazyUpload ==
    /\ []GeometryFlagExact
    /\ [][GeometryStep]_vars

\* a frame has drawn one shared data four times (two surfaces of one mesh,
\* two cameras) with a single upload, and the next frame has begun
C20_Witness ==
    /\ phase = "uploaded"
    /\ Len(draws) = 4
    /\ DrawnData(draws) = {1}
    /\ Cardinality({draws[i].camera : i \in DOMAIN draws}) = 2
    /\ surface_data[1] = [need_upload |-> FALSE, uploads |-> 1]

----------------------------------------------------------------------------
(* Render claims, under SpecRender *)

\* the nodes form a tree under root: root has no parent, the children of
\* every live node are live, distinct and name it as their parent, and
\* every live node is reached from root
IsTree(pool) ==
    /\ IsSome(borrow(pool, root))
    /\ NodeAt(pool, root).parent = HandleNone
    /\ \A i \in LiveSlots(pool) :
          /\ SlotHandle(pool, i) \in InTree(pool)
          /\ \A k \in DOMAIN SlotNode(pool, i).children :
                LET c == SlotNode(pool, i).children[k]
                IN  /\ IsSome(borrow(pool, c))
                    /\ NodeAt(pool, c).parent = SlotHandle(pool, i)
                    /\ Count(SlotNode(pool, i).children, c) = 1

\* the live nodes of a tag
TaggedHandles(pool, tag) ==
    {SlotHandle(pool, i) : i \in {j \in LiveSlots(pool) :
                                     SlotNode(pool, j).kind.tag = tag}}

\* the sum of f over the set S
RECURSIVE SumOver(_, _)
SumOver(f, S) ==
    IF S = {} THEN 0
    ELSE LET x == CHOOSE y \in S : TRUE
         IN  f[x] + SumOver(f, S \ {x})

\* the surfaces of all meshes
TotalSurfaces(pool) ==
    SumOver([m \in TaggedHandles(pool, "Mesh")
                |-> Len(NodeAt(pool, m).kind.surfaces)],
            TaggedHandles(pool, "Mesh"))

\* the draw calls of one camera are next to one another
GroupedByCamera(log) ==
    \A i \in DOMAIN log, j \in DOMAIN log, k \in DOMAIN log :
        (i < j /\ j < k /\ log[i].camera = log[k].camera)
            => log[j].camera = log[i].camera

\* what one render of a tree issues
RenderComplete(pool, log) ==
    /\ \A c \in TaggedHandles(pool, "Camera") :
          \A m \in TaggedHandles(pool, "Mesh") :
             Cardinality(CallsFor(log, c, m))
                = Len(NodeAt(pool, m).kind.surfaces)
    /\ Len(log) = Cardinality(TaggedHandles(pool, "Camera"))
                      * TotalSurfaces(pool)
    /\ \A i \in DOMAIN log :
          /\ log[i].camera \in TaggedHandles(pool, "Camera")
          /\ log[i].mesh \in TaggedHandles(pool, "Mesh")
    /\ GroupedByCamera(log)

\* C21: one Renderer::render of a scene whose nodes form a tree under root
\* draws, for every camera node and every mesh node, each surface of the
\* mesh exactly once with that camera, so that it issues (cameras x
\* surfaces) draw calls; no draw call names a Base or Light node; and the
\* draw calls of one camera are all issued before those of the next.
C21_EveryCameraRendersEveryMesh ==
    [][(phase = "uploaded" /\ phase' = "idle" /\ IsTree(nodes))
          => RenderComplete(nodes, draws')]_vars

\* two cameras, one below the other, a mesh of two surfaces: four draw calls
C21_Witness ==
    /\ phase = "idle"
    /\ IsTree(nodes)
    /\ Len(draws) = 4
    /\ Cardinality(TaggedHandles(nodes, "Camera")) = 2
    /\ \E c \in TaggedHandles(nodes, "Camera") :
          NodeAt(nodes, c).parent \in TaggedHandles(nodes, "Camera")
    /\ RenderComplete(nodes, draws)

----------------------------------------------------------------------------
(* Frame claims, under SpecFrame *)

\* the steps of one iteration of the frame loop
UpdateStepOfFrame == phase = "idle" /\ phase' = "updated"

UploadStepOfFrame == phase = "updated" /\ phase' = "uploaded"

RenderStepOfFrame == phase = "uploaded" /\ phase' = "idle"

\* Scene::update has run on the scene as it is: running it again changes
\* nothing
Updated(pool, aspect) == update(pool, aspect).nodes = pool

SceneUpdated == Updated(nodes, aspect_ratio)

\* C22: in every iteration of the frame loop the steps run in the order
\* Scene::update, Renderer::upload_resources, Renderer::render: a render
\* step finds the scene as this frame's update left it and every texture
\* uploaded, and it alone issues draw calls; an upload step comes after the
\* update of its frame; and an update step comes only after the render of
\* the frame before, so that no two updates run between two renders.
C22_FrameOrdering ==
    [][/\ RenderStepOfFrame => (SceneUpdated /\ AllUploaded(resources))
       /\ draws' # draws => RenderStepOfFrame
       /\ resources' # resources =>
             (UploadStepOfFrame \/ (phase = "idle" /\ phase' = "idle"))
       /\ UploadStepOfFrame => SceneUpdated
       /\ phase' = "uploaded" => UploadStepOfFrame
       /\ phase' = "updated" => (UpdateStepOfFrame /\ Updated(nodes', aspect_ratio'))
       /\ phase # phase' =>
             (UpdateStepOfFrame \/ UploadStepOfFrame \/ RenderStepOfFrame)
      ]_vars

\* a frame is complete: a mesh that was moved and whose texture was
\* uploaded has been drawn at its new place with its texture bound
C22_Witness ==
    /\ phase = "idle"
    /\ \E i \in DOMAIN draws :
          /\ IsSome(draws[i].bound)
          /\ IsSome(borrow_node(nodes, draws[i].mesh))
          /\ NodeAt(nodes, draws[i].mesh).local_position # Zeros
          /\ NodeAt(nodes, draws[i].mesh).global_transform
                = new_translation(NodeAt(nodes, draws[i].mesh).local_position)
    /\ SceneUpdated
    /\ AllUploaded(resources)

----------------------------------------------------------------------------
(* Uniform lookup, under SpecUniform *)

\* C23: a render either issues all the draw calls of the scene and the
\* frame goes on, or, when the lookup of the transform uniform fails, it
\* panics before any draw call of the scene: no draw call is issued, no
\* geometry is uploaded, and nothing runs after the panic. A render never
\* ends a frame normally with the draws of the scene left out.
C23_UniformLookupFatal ==
    [][/\ phase = "uploaded" =>
             \/ /\ phase' = "idle"
                /\ draws' = render(nodes, surface_data, resources).draws
             \/ /\ phase' = "panicked"
                /\ draws' = <<>>
                /\ surface_data' = surface_data
       /\ phase # "panicked"
      ]_vars

\* the lookup failed in a frame of a scene that has a camera and a mesh to
\* draw: the render panicked and drew nothing
C23_Witness ==
    /\ phase = "panicked"
    /\ draws = <<>>
    /\ render(nodes, surface_data, resources).draws # <<>>

----------------------------------------------------------------------------
(* The order of update, under SpecOrder *)

\* h was processed by the running update: it is not waiting on the stack
\* and its transforms are what processing it now would store
Processed(h) ==
    /\ \A k \in DOMAIN stack : stack[k] # h
    /\ UpdateNode(nodes, h, aspect_ratio) = nodes

\* C24: during one Scene::update on a tree, whenever a node other than
\* root waits on the stack to be processed, its parent has already been
\* processed in this call: the parent is no longer on the stack and holds
\* its recomputed local_transform and global_transform; and the step that
\* processes the node computes its global_transform from that parent.
C24_ParentBeforeChild ==
    /\ [](\A k \in DOMAIN stack :
            (/\ pc = "update"
             /\ IsTree(nodes)
             /\ stack[k] # root
             /\ IsSome(borrow(nodes, stack[k])))
                => Processed(NodeAt(nodes, stack[k]).parent))
    /\ [][(/\ pc = "update" /\ pc' = "update"
           /\ IsTree(nodes)
           /\ stack[Len(stack)] # root)
              => NodeAt(nodes', stack[Len(stack)]).global_transform
                    = Mul(LocalTransformOf(NodeAt(nodes, stack[Len(stack)])),
                          LocalTransformOf(
                             NodeAt(nodes,
                                NodeAt(nodes, stack[Len(stack)]).parent)))
      ]_vars

\* a node two levels below root waits on the stack with a stale
\* global_transform; its parent, which was moved, has been recomputed
C24_Witness ==
    /\ pc = "update"
    /\ IsTree(nodes)
    /\ \E k \in DOMAIN stack :
          /\ stack[k] # root
          /\ NodeAt(nodes, stack[k]).parent # root
          /\ NodeAt(nodes, NodeAt(nodes, stack[k]).parent).local_transform
                # Identity
          /\ Processed(NodeAt(nodes, stack[k]).parent)
          /\ UpdateNode(nodes, stack[k], aspect_ratio) # nodes

----------------------------------------------------------------------------
(* The order of siblings in render, under SpecRender *)

IndexIn(s, x) == CHOOSE i \in DOMAIN s : s[i] = x

\* the pairs <<a, b>> of live sibling meshes, or of live sibling cameras,
\* where a was inserted into the children of their parent before b
SiblingPairs(pool) ==
    {pr \in Range(issued) \X Range(issued) :
        /\ IsSome(borrow(pool, pr[1])) /\ IsSome(borrow(pool, pr[2]))
        /\ NodeAt(pool, pr[1]).kind.tag \in {"Mesh", "Camera"}
        /\ NodeAt(pool, pr[1]).kind.tag = NodeAt(pool, pr[2]).kind.tag
        /\ \E i \in LiveSlots(pool) :
              \E j \in DOMAIN SlotNode(pool, i).children :
                 \E k \in DOMAIN SlotNode(pool, i).children :
                    /\ j < k
                    /\ SlotNode(pool, i).children[j] = pr[1]
                    /\ SlotNode(pool, i).children[k] = pr[2]}

\* a enters its bucket before b, and is drawn (mesh) or renders (camera)
\* before b in the draw calls of log
VisitedBefore(pool, log, a, b) ==
    IF NodeAt(pool, a).kind.tag = "Mesh"
    THEN /\ IndexIn(Buckets(pool).meshes, a)
               < IndexIn(Buckets(pool).meshes, b)
         /\ \A x \in DOMAIN log, y \in DOMAIN log :
               (/\ log[x].mesh = a /\ log[y].mesh = b
                /\ log[x].camera = log[y].camera) => x < y
    ELSE /\ IndexIn(Buckets(pool).cameras, a)
               < IndexIn(Buckets(pool).cameras, b)
         /\ \A x \in DOMAIN log, y \in DOMAIN log :
               (log[x].camera = a /\ log[y].camera = b) => x < y

\* C25, as stated: in Renderer::render on a tree, sibling meshes enter the
\* mesh bucket and are drawn, and sibling cameras enter the camera bucket
\* and render, in the order in which their handles were inserted into the
\* children of their parent.
C25_SiblingInsertionOrder ==
    [][(RenderStepOfFrame /\ IsTree(nodes))
          => \A pr \in SiblingPairs(nodes) :
                VisitedBefore(nodes, draws', pr[1], pr[2])]_vars

\* C25, amended: in Renderer::render on a tree, siblings are visited in the
\* reverse of the order in which their handles were inserted into the
\* children of their parent: of two sibling meshes the one inserted later
\* enters the mesh bucket and is drawn first, and of two sibling cameras the
\* one inserted later enters the camera bucket and renders first.
C25_SiblingReverseOrder ==
    [][(RenderStepOfFrame /\ IsTree(nodes))
          => \A pr \in SiblingPairs(nodes) :
                VisitedBefore(nodes, draws', pr[2], pr[1])]_vars

\* a camera and two sibling meshes were rendered: the first draw call is
\* for the mesh inserted last
C25_Witness ==
    /\ phase = "idle"
    /\ IsTree(nodes)
    /\ draws = render(nodes, surface_data, resources).draws
    /\ \E pr \in SiblingPairs(nodes) :
          /\ NodeAt(nodes, pr[1]).kind.tag = "Mesh"
          /\ draws # <<>>
          /\ draws[1].mesh = pr[2]
          /\ \E x \in DOMAIN draws : draws[x].mesh = pr[1]

----------------------------------------------------------------------------
(* The size of the traversal stack, under SpecOrder *)

\* the number of links from root down to h
RECURSIVE DepthOf(_, _, _)
DepthOf(pool, h, fuel) ==
    IF h = root \/ fuel = 0 THEN 0
    ELSE 1 + DepthOf(pool, NodeAt(pool, h).parent, fuel - 1)

Largest(S) == CHOOSE x \in S : \A y \in S : y <= x

\* the depth of the tree: the deepest node's number of links from root
TreeDepth(pool) ==
    Largest({DepthOf(pool, SlotHandle(pool, i), capacity(pool)) :
                i \in LiveSlots(pool)})

\* C26, as stated: at every step of Scene::update on a tree the traversal
\* stack holds at most as many handles as the tree is deep (one handle, the
\* root, for a tree that is only its root).
C26_StackBoundedByDepth ==
    (pc = "update" /\ IsTree(nodes))
        => Len(stack) <= Largest({1, TreeDepth(nodes)})

\* C26, amended: at every step of Scene::update on a tree the handles on
\* the traversal stack are distinct nodes of the tree, so the stack holds
\* at most as many handles as the tree has nodes other than root (one
\* handle, the root, at the start); a root with k leaf children puts k
\* handles on the stack.
C26_StackBoundedByNodes ==
    (pc = "update" /\ IsTree(nodes))
        => /\ \A j \in DOMAIN stack : \A k \in DOMAIN stack :
                 stack[j] = stack[k] => j = k
           /\ \A k \in DOMAIN stack : IsSome(borrow(nodes, stack[k]))
           /\ Len(stack)
                 <= Largest({1, Cardinality(LiveSlots(nodes)) - 1})

\* root was processed and its leaf children, more than one, are all on the
\* stack of a tree of depth one
C26_Witness ==
    /\ pc = "update"
    /\ IsTree(nodes)
    /\ TreeDepth(nodes) = 1
    /\ Len(stack) >= 2
    /\ stack = NodeAt(nodes, root).children

----------------------------------------------------------------------------
(* Texture uploads over the frames, under SpecFrame *)

\* the textures of the resource list
TextureEntries(list) == {i \in DOMAIN list : list[i].kind.tag = "Texture"}

\* a texture is uploaded when it is pending and never again
UploadedAtMostOnce ==
    \A i \in TextureEntries(resources) :
        resources[i].kind.uploads
            = IF resources[i].kind.need_upload THEN 0 ELSE 1

\* what one step does to the textures
TextureStep ==
    /\ \A i \in TextureEntries(resources) :
          /\ ~resources[i].kind.need_upload => resources'[i] = resources[i]
          /\ IsSome(resources[i].kind.gpu_tex)
                => resources'[i].kind.gpu_tex = resources[i].kind.gpu_tex
          /\ resources'[i].kind.need_upload => resources[i].kind.need_upload
    /\ UploadStepOfFrame
          => \A i \in TextureEntries(resources') :
                resources'[i].kind.uploads = 1

\* C27: upload_resources leaves every texture whose need_upload flag is
\* false as it is; over any number of frames a texture obtained from
\* request_texture is uploaded by the first upload_resources after the
\* request and by no later one (one upload in all), its flag is never set
\* again, and its GPU texture identifier, once assigned, does not change.
C27_NoReupload ==
    []UploadedAtMostOnce /\ [][TextureStep]_vars

\* upload_resources has run again after a frame that drew a mesh with its
\* uploaded texture: that texture still has one upload and the same name
C27_Witness ==
    /\ phase = "uploaded"
    /\ \E i \in DOMAIN draws :
          /\ IsSome(draws[i].texture)
          /\ IsSome(draws[i].bound)
          /\ resources[Unwrap(draws[i].texture)].kind.uploads = 1
          /\ resources[Unwrap(draws[i].texture)].kind.gpu_tex
                = draws[i].bound

----------------------------------------------------------------------------
(* The shape of the graph and the end of the traversals, under SpecLive:    *)
(* the scene operations called with handles that resolve                    *)

NextLive ==
    \/ AddNode(MaxNodes, Zeros)
    \/ \E h \in LiveHandles : RemoveNode(h)
    \/ \E c \in LiveHandles, p \in LiveHandles : LinkNodes(c, p)
    \/ \E h \in LiveHandles : UnlinkNode(h)
    \/ UpdateBegin
    \/ UpdateStep
    \/ UpdateReturn

SpecLive == Init /\ [][NextLive]_vars

\* an update that has begun goes on: the loop runs while the stack has an
\* entry and returns when it has none
SpecLiveFair == SpecLive /\ WF_vars(UpdateStep) /\ WF_vars(UpdateReturn)

\* the live nodes reached from the nodes of S by children links
RECURSIVE ReachFrom(_, _, _)
ReachFrom(pool, S, fuel) ==
    IF fuel = 0 THEN S
    ELSE ReachFrom(pool,
            S \cup {c \in CallerHandles :
                      /\ IsSome(borrow(pool, c))
                      /\ \E h \in S : Count(NodeAt(pool, h).children, c) > 0},
            fuel - 1)

ChildrenReachable(pool) ==
    IF IsSome(borrow(pool, root))
    THEN ReachFrom(pool, {root}, capacity(pool))
    ELSE {}

\* the number of children links from nodes of R to h
LinksTo(pool, R, h) ==
    SumOver([n \in R |-> Count(NodeAt(pool, n).children, h)], R)

\* C28: after any sequence of add_node, link_nodes, unlink_node and
\* remove_node called with live handles, following children links from root
\* visits no node twice: no children link leads back to root, and every
\* other node reached from root is reached by exactly one link.
C28_StaysRootedTree ==
    pc = "idle" =>
        \A h \in ChildrenReachable(nodes) :
            LinksTo(nodes, ChildrenReachable(nodes), h)
                = IF h = root THEN 0 ELSE 1

\* the stack of the running update is about to outgrow the longest stack
\* that is followed
StackOutgrown ==
    /\ pc = "update"
    /\ stack # <<>>
    /\ Len(stack) - 1 + Len(PushedChildren(nodes, stack[Len(stack)]))
          > MaxStack

\* C29: in every scene state reached through the scene operations, a
\* Scene::update that has begun comes to its end: its loop empties the
\* stack and the call returns (an update whose stack outgrows the longest
\* stack followed is left aside).
C29_TraversalTerminates == (pc = "update") ~> (pc = "idle" \/ StackOutgrown)

----------------------------------------------------------------------------
(* Removal without unlink, under SpecOrphan *)

\* the live nodes below h, h excluded
Descendants(pool, h) ==
    IF IsSome(borrow(pool, h))
    THEN ReachFrom(pool, {h}, capacity(pool)) \ {h}
    ELSE {}

\* the live nodes that are not reached from root
Orphans(pool) ==
    {SlotHandle(pool, i) : i \in LiveSlots(pool)}
        \ ChildrenReachable(pool)

\* the handles in the buckets of render are those of the nodes reached
\* from root, each once: no removed node, no orphan
BucketsReachOnly(pool) ==
    LET all == Buckets(pool).meshes \o Buckets(pool).lights
                  \o Buckets(pool).cameras
    IN  /\ \A k \in DOMAIN all : all[k] \in ChildrenReachable(pool)
        /\ \A j \in DOMAIN all : \A k \in DOMAIN all :
              all[j] = all[k] => j = k

\* remove_node(n) frees n alone: the nodes below n stay in their slots as
\* they were and are no longer reached from root
RemoveOrphans ==
    freed' # freed =>
        \A d \in Descendants(nodes, freed'[Len(freed')]) :
            /\ borrow(nodes', d) = borrow(nodes, d)
            /\ d \in Orphans(nodes')

\* Scene::update recomputes the nodes reached from root and no other
UpdateReachOnly ==
    (nodes' # nodes /\ freed' = freed /\ issued' = issued /\ phase' = phase
        /\ \A i \in LiveSlots(nodes) :
               SlotNode(nodes', i).children = SlotNode(nodes, i).children
               /\ SlotNode(nodes', i).parent = SlotNode(nodes, i).parent)
        => /\ \A d \in Orphans(nodes) : borrow(nodes', d) = borrow(nodes, d)
           /\ Updated(nodes', aspect_ratio')

\* Renderer::render draws the meshes reached from root with the cameras
\* reached from root, each surface once, and nothing else
RenderReachOnly ==
    RenderStepOfFrame =>
        /\ \A i \in DOMAIN draws' :
              /\ draws'[i].camera \in ChildrenReachable(nodes)
              /\ draws'[i].mesh \in ChildrenReachable(nodes)
        /\ \A c \in ChildrenReachable(nodes) :
              \A m \in ChildrenReachable(nodes) :
                 (NodeAt(nodes, c).kind.tag = "Camera"
                    /\ NodeAt(nodes, m).kind.tag = "Mesh")
                     => Cardinality(CallsFor(draws', c, m))
                           = Len(NodeAt(nodes, m).kind.surfaces)

\* C30: after remove_node(n) without a prior unlink, the stale handle left
\* in the children of n's parent is skipped by update and by render, also
\* when a later add_node has reused the slot of n: no removed handle enters
\* a bucket or a draw call, and the node in the reused slot is processed
\* once, as itself. The former descendants of n stay live in their slots,
\* unchanged, and are no longer reached: update leaves them as they are and
\* render does not draw them.
C30_RemovedIsSkippedSubtreeOrphaned ==
    /\ [](pc = "idle" => BucketsReachOnly(nodes))
    /\ [][RemoveOrphans /\ UpdateReachOnly /\ RenderReachOnly]_vars

\* a mesh was removed with a mesh below it and the scene was updated: the
\* stale handle is still among the children of root, the camera has been
\* recomputed, and the orphan is live with the transform it was created
\* with and is in no bucket
C30_Witness ==
    /\ phase = "idle"
    /\ freed # <<>>
    /\ Count(NodeAt(nodes, root).children, freed[1]) = 1
    /\ \E d \in Orphans(nodes) :
          /\ NodeAt(nodes, d).kind.tag = "Mesh"
          /\ NodeAt(nodes, d).parent = freed[1]
          /\ NodeAt(nodes, d).local_position # Zeros
          /\ NodeAt(nodes, d).local_transform = Identity
    /\ \E c \in ChildrenReachable(nodes) :
          /\ NodeAt(nodes, c).kind.tag = "Camera"
          /\ NodeAt(nodes, c).kind # CameraDefault
    /\ Updated(nodes, aspect_ratio)
    /\ Buckets(nodes).meshes = <<>>

----------------------------------------------------------------------------
(* Textures at the draw, under SpecUniform *)

\* the textures that hold a GL name are as many as the names GL returned
NamesHeld ==
    Cardinality({i \in TextureEntries(resources) :
                    IsSome(resources[i].kind.gpu_tex)}) = gl_textures

\* the draw calls of log that bind a texture of the resource list
TexturedCalls(log) == {i \in DOMAIN log : IsSome(log[i].texture)}

EmptyScratch ==
    [meshes |-> <<>>, lights |-> <<>>, cameras |-> <<>>,
     traversal_stack |-> <<>>]

\* a start of scene that keeps what the scratch sequences hold
clear_scratch_keep(scratch) == scratch

\* the scratch sequences after the four clear() calls that open the
\* rendering of a scene
clear_scratch(scratch) ==
    [scratch EXCEPT !.meshes = <<>>, !.lights = <<>>, !.cameras = <<>>,
                    !.traversal_stack = <<>>]

\* the scratch sequences after the traversal of one scene, when the renderer
\* came to that scene with `scratch`
BucketsAfter(scratch, pool) ==
    RenderTraverse(pool,
                   Append(clear_scratch(scratch).traversal_stack, root),
                   clear_scratch(scratch),
                   TraversalBound(pool))

\* the scratch sequences with which scene k of `scenes` is drawn, in a frame
\* the renderer began with `scratch`
RECURSIVE BucketsOfScene(_, _, _)
BucketsOfScene(scenes, k, scratch) ==
    IF k = 1 THEN BucketsAfter(scratch, scenes[1])
    ELSE BucketsAfter(BucketsOfScene(scenes, k - 1, scratch), scenes[k])

\* scenes other than the one of the model: Scene::new alone, and Scene::new
\* with two nodes of different kinds added
SceneNew == spawn(PoolNew, NodeNew(0, KindBase)).pool

SceneCameraLight ==
    add_node(add_node(SceneNew, NodeNew(1, CameraDefault)).pool,
             NodeNew(2, LightDefault)).pool

SceneMeshCamera ==
    add_node(add_node(SceneNew, NodeNew(1, MeshDefault)).pool,
             NodeNew(2, CameraDefault)).pool

OtherScenes == {SceneNew, SceneCameraLight, SceneMeshCamera}

\* the handles of the occupied slots of pool
SlotHandles(pool) == {SlotHandle(pool, i) : i \in LiveSlots(pool)}

\* the nodes of pool reached from the nodes of S by children links
RECURSIVE SceneReach(_, _, _)
SceneReach(pool, S, fuel) ==
    IF fuel = 0 THEN S
    ELSE SceneReach(pool,
            S \cup {c \in SlotHandles(pool) :
                      \E h \in S : Count(NodeAt(pool, h).children, c) > 0},
            fuel - 1)

\* frames of a scene that changes between them: lights, cameras and meshes
\* are added, the newest node is linked under the one before it, nodes are
\* removed, and frames are rendered
NextScratch ==
    \/ \E kind \in {LightDefault, CameraDefault} :
          AddGraphNode(MaxScratchNodes, kind)
    \/ AddMeshNode(MaxScratchNodes, FALSE, Zeros)
    \/ /\ Len(issued) >= 2
       /\ LinkNodes(issued[Len(issued)], issued[Len(issued) - 1])
    \/ \E h \in Range(issued) : RemoveNode(h)
    \/ EngineRenderUpload({})
    \/ EngineRenderDraw

SpecScratch == Init /\ [][NextScratch]_vars

\* seq holds the nodes of `reach` that are of kind `tag` in pool, each once,
\* and nothing else
BucketHolds(pool, reach, seq, tag) ==
    /\ \A j \in DOMAIN seq : \A k \in DOMAIN seq : seq[j] = seq[k] => j = k
    /\ Range(seq) = {h \in reach : NodeAt(pool, h).kind.tag = tag}

\* the scratch sequences b hold what a traversal of pool finds, and only that
IsolatedIn(pool, b) ==
    LET reach == SceneReach(pool, {root}, capacity(pool))
    IN  /\ b.traversal_stack = <<>>
        /\ BucketHolds(pool, reach, b.meshes, "Mesh")
        /\ BucketHolds(pool, reach, b.lights, "Light")
        /\ BucketHolds(pool, reach, b.cameras, "Camera")

\* in a frame over `scenes` that the renderer began with `scratch`, scene k
\* is drawn with the scratch sequences a renderer fresh from Renderer::new
\* would draw it with
DrawnAsAlone(scenes, k, scratch) ==
    BucketsOfScene(scenes, k, scratch) = BucketsAfter(EmptyScratch, scenes[k])

\* C32: whatever the renderer processed before (another scene earlier in the
\* same frame, or the same scene in the previous frame, before the graph
\* changed), the cameras, lights and meshes sequences with which a scene is
\* drawn hold exactly the nodes the traversal of that scene found in that
\* frame, each once, and the traversal stack holds nothing: they are the
\* sequences a renderer that never saw another scene or frame would hold
C32_ScratchIsolatedPerScene ==
    /\ [](/\ IsolatedIn(nodes, BucketsOfScene(<<nodes>>, 1, EmptyScratch))
          /\ \A other \in OtherScenes :
                /\ IsolatedIn(other, BucketsAfter(EmptyScratch, other))
                /\ DrawnAsAlone(<<other, nodes>>, 2, EmptyScratch)
                /\ DrawnAsAlone(<<nodes, other>>, 2, EmptyScratch))
    /\ [][DrawnAsAlone(<<nodes'>>, 1,
                       BucketsOfScene(<<nodes>>, 1, EmptyScratch))]_vars

\* a frame was drawn for a scene whose mesh has the handle that names a
\* camera in another scene, and whose camera has the handle that names a
\* light there
C32_Witness ==
    /\ phase = "idle" /\ draws # <<>>
    /\ \E h \in Range(BucketsAfter(EmptyScratch, SceneCameraLight).cameras) :
          h \in Range(BucketsAfter(EmptyScratch, nodes).meshes)
    /\ \E h \in Range(BucketsAfter(EmptyScratch, SceneCameraLight).lights) :
          h \in Range(BucketsAfter(EmptyScratch, nodes).cameras)

\* ---------------------------------------------------------------------
\* Handle uniqueness, under SpecPool
\* ---------------------------------------------------------------------

\* every handle spawn has returned on the pool of the scene, in order: the
\* one Scene::new keeps as root, then those of add_node
Returned == <<root>> \o issued

\* the returned handles that resolve now
Resolving == {h \in Range(Returned) : IsSome(borrow(nodes, h))}

\* the handle values that name slot i, with any generation the pool can
\* have reached
HandleValuesOf(i) ==
    {Handle(i, g) : g \in 0..(2 * (Len(Returned) + Len(freed)) + 2)}

\* C33: spawn never returns the same (index, generation) pair twice; the
\* handles that resolve are pairwise different; each occupied slot is
\* resolved by exactly one handle value, which is one spawn returned; and
\* the number of resolving handles is capacity() minus the number of slots
\* on the free list
C33_HandleUniqueness ==
    /\ \A j \in DOMAIN Returned : \A k \in DOMAIN Returned :
          Returned[j] = Returned[k] => j = k
    /\ \A i \in LiveSlots(nodes) :
          /\ Cardinality({h \in HandleValuesOf(i) :
                             IsSome(borrow(nodes, h))}) = 1
          /\ \A h \in HandleValuesOf(i) :
                IsSome(borrow(nodes, h)) => h \in Resolving
    /\ \A h \in Resolving : h.index \in LiveSlots(nodes)
    /\ Cardinality(Resolving) = capacity(nodes) - Len(FreeList(nodes))

\* a slot was given out twice, its second handle resolves and its first does
\* not, another handle resolves and another slot is free
C33_Witness ==
    /\ \E j \in DOMAIN issued : \E k \in DOMAIN issued :
          /\ j < k
          /\ issued[j].index = issued[k].index
          /\ issued[k] \in Resolving
          /\ issued[j] \notin Resolving
    /\ Cardinality(Resolving) >= 2
    /\ FreeList(nodes) # <<>>

====
